---- MODULE Spec2Model ----
(***************************************************************************)
(* Verification model of the doai-me device farm controller.               *)
(*                                                                         *)
(* Part I   the Appium session pool (appium_core/session_manager.py):      *)
(*          worker threads call create_session, close_session and          *)
(*          cleanup_stale_sessions on one SessionManager.  Only            *)
(*          _allocate_port and _release_port take the pool's lock, so      *)
(*          every other statement is a separate step.                      *)
(***************************************************************************)
EXTENDS Integers, FiniteSets, Sequences, TLC

\* ---------------------------------------------------------------- bounds
NumDevices == 3
NumThreads == 3
NumPorts == 3
MaxDrivers == 3
MaxOps == 3
MaxTasks == 2
MaxMsgs == 2
SeqMsgs == 1
MaxRetryArg == 4
MaxWatchSec == 130
MaxAdSec == 15
HungCallSec == 125
MaxCaptures == 22
MaxMs == 1
MaxBatch == 12
\* SessionManager(max_sessions=...): a small pool, below the number of devices
max_sessions == 2

\* ------------------------------------------------------ program constants
system_port_start == 8200

system_port_end == system_port_start + NumPorts - 1

Devices == 1..NumDevices
Threads == 1..NumThreads
Ports == system_port_start..system_port_end
DriverIds == 1..MaxDrivers
TaskIds == 1..MaxTasks
CeleryIds == 1..MaxMsgs

NoPort == 0
NoDriver == 0
NoDevice == 0
NoKey == 0
NoMsg == 0

VARIABLES
    _port_pool,     \* SessionManager._port_pool : set of free systemPorts
    _used_ports,    \* SessionManager._used_ports : device -> port (NoPort = absent)
    _sessions,      \* SessionManager._sessions : device -> driver (NoDriver = absent)
    drivers,        \* every webdriver.Remote ever created: udid, systemPort, state
    thr,            \* per worker thread: position and locals of the running call
    ops,            \* number of direct pool calls started so far
    tasks,          \* the persistence layer's tasks table: row id -> row
    msgs,           \* the broker: Celery task id -> message and execution state
    revoked,        \* Celery task ids revoked with terminate=True
    dispatching,    \* Celery task ids sent by a dispatch call that has not yet inserted its row
    devices         \* the devices table and the handsets: status, script running, automation job running

poolVars == <<_port_pool, _used_ports, _sessions, drivers>>

dbVars == <<tasks, msgs, revoked, dispatching>>

vars == <<_port_pool, _used_ports, _sessions, drivers, thr, ops, tasks, msgs, revoked, dispatching,
          devices>>

\* ---------------------------------------------------------------- helpers
Min(S) == CHOOSE x \in S : \A y \in S : x <= y

active_session_count == Cardinality({d \in Devices : _sessions[d] # NoDriver})

UsedPortSet == {_used_ports[d] : d \in {e \in Devices : _used_ports[e] # NoPort}}

NoDriverRec == [udid |-> NoDevice, systemPort |-> NoPort, st |-> "none"]

QuitDriverRec == [udid |-> NoDevice, systemPort |-> NoPort, st |-> "quit"]

NextDriverId == Min({k \in DriverIds : drivers[k].st = "none"} \cup {MaxDrivers + 1})

IdleThreads == {t \in Threads : thr[t].pc = "idle"}

\* a device as device_service.get_device returns it (found = FALSE: None)
NoDeviceRow == [found |-> FALSE, id |-> NoDevice, pc_number |-> "none", status |-> "none"]

\* the request an API endpoint is serving, and its response so far
NoRequest == [endpoint |-> "none", device |-> NoDeviceRow, pc_number |-> "none",
              pc |-> "none", queue |-> "none", status_code |-> 0]

\* the job a thread executes: JobParams, the environment the job meets, the
\* JobResult under construction, EvidenceCapture._current_job, and the
\* interactions started so far
NoJob == [target_url |-> FALSE, prob_like |-> 0, prob_comment |-> 0, prob_subscribe |-> 0,
          like_btn |-> "none", current_job |-> FALSE, finished |-> FALSE,
          interacting |-> FALSE, success |-> FALSE, search_success |-> FALSE,
          error_code |-> "none", did_like |-> FALSE, did_comment |-> FALSE,
          did_subscribe |-> FALSE, did_playlist |-> FALSE, like_taps |-> 0, log |-> <<>>,
          raised |-> [wde |-> FALSE, words |-> {}]]

\* the locals of one _watch_video call, its StallMonitor, the AdSkipper's
\* counters, and what the handset does meanwhile: the elements on screen,
\* the state query_app_state reports, and for how long playback has stood still
NoWatch == [target_duration |-> 0, elapsed |-> 0, _last_progress |-> 0, since_update |-> 0,
            _ad_detected_count |-> 0, _skip_count |-> 0, screen |-> {}, app_state |-> 4,
            frozen_for |-> 0, next_skip_pct |-> 0]

NoStamp == 0 - 1

\* one EvidenceCapture: _current_job (active, the number of entries of its
\* "files" manifest), _sequence, _last_timestamp; the clock in milliseconds;
\* and, of the running job, the capture calls made, whether the last call opened a file,
\* the filename generated last, and what the last call returned
NoEvidence == [_current_job |-> FALSE, files |-> 0, _sequence |-> 0, _last_timestamp |-> NoStamp,
               now |-> 0, calls |-> 0, wrote |-> FALSE, filename |-> <<>>, ret |-> "none"]

\* one batch_install call: the number of target serials, the loop index i,
\* the result dict, and of the wave sent last its size, the installs that
\* have not returned yet and the results that say success
NoBatch == [targets |-> 0, i |-> 0, total |-> 0, success |-> 0, failed |-> 0, error |-> "none",
            wave |-> 0, running |-> 0, wave_success |-> 0, waves |-> <<>>]

Idle == [pc |-> "idle", op |-> "none", dev |-> NoDevice, driver |-> NoDriver,
         port |-> NoPort, stale |-> <<>>, ret |-> "none", out |-> "none",
         msg |-> NoMsg, exc |-> "none", success |-> FALSE, error_code |-> "none",
         job |-> NoJob, retry_count |-> 0, req |-> NoRequest, watch |-> NoWatch,
         ev |-> NoEvidence, batch |-> NoBatch,
         recovery |-> [action |-> "none", delay |-> 0, new_retry_count |-> 0, error_code |-> "none"]]

NoRow == [status |-> "none", celery_task_id |-> NoMsg, task_name |-> "none",
          started_at |-> FALSE, completed_at |-> FALSE, progress |-> 0,
          result |-> "none", error |-> "none", queue_name |-> "none", device_id |-> NoDevice]

NoMessage == [st |-> "none", name |-> "none", key |-> NoKey, dev |-> NoDevice,
              retries |-> 0, via |-> "none", success |-> FALSE, error_code |-> "none",
              job_retries |-> 0, countdown |-> 0, queue |-> "none"]

NoProgress == 0 - 1

\* the devices of a set, in increasing order (dict iteration order is fixed)
RECURSIVE SetToSeq(_)
SetToSeq(S) == IF S = {} THEN <<>> ELSE <<Min(S)>> \o SetToSeq(S \ {Min(S)})

\* _allocate_port, the body run under self._lock
AllocatedPort(d) ==
    IF _used_ports[d] # NoPort THEN _used_ports[d]
    ELSE IF _port_pool = {} THEN NoPort
    ELSE Min(_port_pool)

PoolAfterAllocate(d) ==
    IF _used_ports[d] # NoPort \/ _port_pool = {} THEN _port_pool
    ELSE _port_pool \ {Min(_port_pool)}

UsedAfterAllocate(d) ==
    IF _used_ports[d] # NoPort \/ _port_pool = {} THEN _used_ports
    ELSE [_used_ports EXCEPT ![d] = Min(_port_pool)]

\* _release_port that forgets the port instead of returning it to the pool
PoolAfterRelease_Forget(d) == _port_pool

\* _release_port, the body run under self._lock
PoolAfterRelease(d) ==
    IF _used_ports[d] # NoPort THEN _port_pool \cup {_used_ports[d]} ELSE _port_pool

UsedAfterRelease(d) == [_used_ports EXCEPT ![d] = NoPort]

\* ------------------------------------------------------------------- Init
Init ==
    /\ _port_pool = Ports
    /\ _used_ports = [d \in Devices |-> NoPort]
    /\ _sessions = [d \in Devices |-> NoDriver]
    /\ drivers = [k \in DriverIds |-> NoDriverRec]
    /\ thr = [t \in Threads |-> Idle]
    /\ ops = 0
    /\ tasks = [r \in TaskIds |-> NoRow]
    /\ msgs = [c \in CeleryIds |-> NoMessage]
    /\ revoked = {}
    /\ dispatching = {}
    /\ devices = [d \in Devices |-> [status |-> "online", script |-> FALSE, automation |-> FALSE]]

\* ------------------------------------------------- operations: entry points
CallCreateSession(t, d) ==
    /\ t = Min(IdleThreads \cup {NumThreads + 1})
    /\ ops < MaxOps
    /\ ops' = ops + 1
    /\ thr' = [thr EXCEPT ![t] = [Idle EXCEPT !.pc = "cs_in", !.op = "create_session", !.dev = d]]
    /\ UNCHANGED <<_port_pool, _used_ports, _sessions, drivers, tasks, msgs, revoked, dispatching, devices>>

CallCloseSession(t, d) ==
    /\ t = Min(IdleThreads \cup {NumThreads + 1})
    /\ ops < MaxOps
    /\ ops' = ops + 1
    /\ thr' = [thr EXCEPT ![t] = [Idle EXCEPT !.pc = "cl_pop", !.op = "close_session",
                                              !.dev = d, !.ret = "op_end"]]
    /\ UNCHANGED <<_port_pool, _used_ports, _sessions, drivers, tasks, msgs, revoked, dispatching, devices>>

CallCleanupStale(t) ==
    /\ t = Min(IdleThreads \cup {NumThreads + 1})
    /\ ops < MaxOps
    /\ ops' = ops + 1
    /\ thr' = [thr EXCEPT ![t] = [Idle EXCEPT !.pc = "st_probe", !.op = "cleanup_stale_sessions"]]
    /\ UNCHANGED <<_port_pool, _used_ports, _sessions, drivers, tasks, msgs, revoked, dispatching, devices>>

\* the operation has returned (or raised) to its caller; the thread is free again
OpReturn(t) ==
    /\ thr[t].pc = "done"
    /\ thr' = [thr EXCEPT ![t] = Idle]
    /\ UNCHANGED <<_port_pool, _used_ports, _sessions, drivers, ops, tasks, msgs, revoked, dispatching, devices>>

\* where create_session hands its result: to the thread's caller
AfterCreate(t, out, drv) ==
    IF thr[t].op = "run_youtube_appium"
    THEN IF out \in {"created", "reused"}
         THEN [thr[t] EXCEPT !.pc = "yt_job", !.driver = drv, !.exc = "none", !.port = NoPort]
         ELSE [thr[t] EXCEPT !.pc = "yt_report_failure", !.driver = NoDriver, !.port = NoPort,
                             !.exc = IF out = "create_failed" THEN thr[t].exc
                                     ELSE IF out = "key_error" THEN "KeyError"
                                     ELSE "RuntimeError"]
    ELSE [thr[t] EXCEPT !.pc = "done", !.out = out, !.driver = drv, !.exc = "none", !.port = NoPort]

\* ------------------------------------------------------------ create_session
\* line 100: if device_udid in self._sessions
CsIn(t) ==
    /\ thr[t].pc = "cs_in"
    /\ thr' = [thr EXCEPT ![t].pc =
                  IF _sessions[thr[t].dev] # NoDriver THEN "cs_get" ELSE "cs_max"]
    /\ UNCHANGED <<_port_pool, _used_ports, _sessions, drivers, ops, tasks, msgs, revoked, dispatching, devices>>

\* line 101: driver = self._sessions[device_udid]  (KeyError when popped meanwhile)
CsGet(t) ==
    /\ thr[t].pc = "cs_get"
    /\ IF _sessions[thr[t].dev] = NoDriver
       THEN thr' = [thr EXCEPT ![t] = AfterCreate(t, "key_error", NoDriver)]
       ELSE thr' = [thr EXCEPT ![t].pc = "cs_probe", ![t].driver = _sessions[thr[t].dev]]
    /\ UNCHANGED <<_port_pool, _used_ports, _sessions, drivers, ops, tasks, msgs, revoked, dispatching, devices>>

\* lines 102-110: driver.session_id; a live driver is returned, a failing
\* probe leads to _cleanup_session
CsProbe(t) ==
    /\ thr[t].pc = "cs_probe"
    /\ \/ /\ drivers[thr[t].driver].st = "live"
          /\ thr' = [thr EXCEPT ![t] = AfterCreate(t, "reused", thr[t].driver)]
       \/ /\ drivers[thr[t].driver].st # "live"
          /\ \/ thr' = [thr EXCEPT ![t].pc = "cl_pop", ![t].ret = "cs_max", ![t].driver = NoDriver]
             \/ thr' = [thr EXCEPT ![t] = AfterCreate(t, "reused", thr[t].driver)]
    /\ UNCHANGED <<_port_pool, _used_ports, _sessions, drivers, ops, tasks, msgs, revoked, dispatching, devices>>

\* lines 112-116: if self.active_session_count >= self.max_sessions: raise
CsMax(t) ==
    /\ thr[t].pc = "cs_max"
    /\ IF active_session_count >= max_sessions
       THEN thr' = [thr EXCEPT ![t] = AfterCreate(t, "max_sessions", NoDriver)]
       ELSE thr' = [thr EXCEPT ![t].pc = "cs_alloc", ![t].ret = "none"]
    /\ UNCHANGED <<_port_pool, _used_ports, _sessions, drivers, ops, tasks, msgs, revoked, dispatching, devices>>

\* line 118: system_port = self._allocate_port(device_udid)
CsAlloc(t) ==
    /\ thr[t].pc = "cs_alloc"
    /\ LET d == thr[t].dev IN
       /\ _port_pool' = PoolAfterAllocate(d)
       /\ _used_ports' = UsedAfterAllocate(d)
       /\ IF AllocatedPort(d) = NoPort
          THEN thr' = [thr EXCEPT ![t] = AfterCreate(t, "no_port", NoDriver)]
          ELSE thr' = [thr EXCEPT ![t].pc = "cs_new", ![t].port = AllocatedPort(d)]
    /\ UNCHANGED <<_sessions, drivers, ops, tasks, msgs, revoked, dispatching, devices>>

\* lines 135-141: driver = webdriver.Remote(...): a session on the Appium
\* server with systemPort = the allocated port, or an exception
CsNew(t) ==
    /\ thr[t].pc = "cs_new"
    /\ \/ /\ NextDriverId \in DriverIds
          /\ drivers' = [drivers EXCEPT ![NextDriverId] =
                            [udid |-> thr[t].dev, systemPort |-> thr[t].port, st |-> "live"]]
          /\ thr' = [thr EXCEPT ![t].pc = "cs_insert", ![t].driver = NextDriverId]
       \/ /\ \E e \in {"WebDriverException", "Exception"} :
                thr' = [thr EXCEPT ![t].pc = "cs_release", ![t].exc = e]
          /\ UNCHANGED drivers
    /\ UNCHANGED <<_port_pool, _used_ports, _sessions, ops, tasks, msgs, revoked, dispatching, devices>>

\* line 142: self._sessions[device_udid] = driver ; line 148: return driver
CsInsert(t) ==
    /\ thr[t].pc = "cs_insert"
    /\ _sessions' = [_sessions EXCEPT ![thr[t].dev] = thr[t].driver]
    /\ thr' = [thr EXCEPT ![t] = AfterCreate(t, "created", thr[t].driver)]
    /\ UNCHANGED <<_port_pool, _used_ports, drivers, ops, tasks, msgs, revoked, dispatching, devices>>

\* lines 149-152: except: self._release_port(device_udid); raise
CsRelease(t) ==
    /\ thr[t].pc = "cs_release"
    /\ _port_pool' = PoolAfterRelease(thr[t].dev)
    /\ _used_ports' = UsedAfterRelease(thr[t].dev)
    /\ thr' = [thr EXCEPT ![t] = AfterCreate(t, "create_failed", NoDriver)]
    /\ UNCHANGED <<_sessions, drivers, ops, tasks, msgs, revoked, dispatching, devices>>

\* ---------------------------------------------------------- _cleanup_session
\* line 164: driver = self._sessions.pop(device_udid, None)
ClPop(t) ==
    /\ thr[t].pc = "cl_pop"
    /\ _sessions' = [_sessions EXCEPT ![thr[t].dev] = NoDriver]
    /\ thr' = [thr EXCEPT ![t].pc = IF _sessions[thr[t].dev] # NoDriver THEN "cl_quit" ELSE "cl_release",
                          ![t].driver = _sessions[thr[t].dev]]
    /\ UNCHANGED <<_port_pool, _used_ports, drivers, ops, tasks, msgs, revoked, dispatching, devices>>

\* lines 165-170: driver.quit(), errors logged and swallowed.  Quitting ends a
\* live session; on a dead session quit raises and nothing changes.
ClQuit(t) ==
    /\ thr[t].pc = "cl_quit"
    /\ drivers' = [drivers EXCEPT ![thr[t].driver] =
                      IF @.st = "live" THEN QuitDriverRec ELSE @]
    /\ thr' = [thr EXCEPT ![t].pc = "cl_release"]
    /\ UNCHANGED <<_port_pool, _used_ports, _sessions, ops, tasks, msgs, revoked, dispatching, devices>>

\* after _cleanup_session: back in the caller
AfterCleanup(t) ==
    CASE thr[t].ret = "cs_max" -> [thr[t] EXCEPT !.pc = "cs_max", !.driver = NoDriver, !.ret = "none"]
      [] thr[t].ret = "st_loop" -> [thr[t] EXCEPT !.pc = "st_loop", !.driver = NoDriver,
                                                  !.dev = NoDevice, !.ret = "none"]
      [] thr[t].ret \in {"yt_return", "yt_retry", "yt_raise"} ->
             [thr[t] EXCEPT !.pc = thr[t].ret, !.driver = NoDriver]
      [] OTHER -> [thr[t] EXCEPT !.pc = "done", !.out = "closed", !.driver = NoDriver]

\* line 172: self._release_port(device_udid)
ClRelease(t) ==
    /\ thr[t].pc = "cl_release"
    /\ _port_pool' = PoolAfterRelease(thr[t].dev)
    /\ _used_ports' = UsedAfterRelease(thr[t].dev)
    /\ thr' = [thr EXCEPT ![t] = AfterCleanup(t)]
    /\ UNCHANGED <<_sessions, drivers, ops, tasks, msgs, revoked, dispatching, devices>>

\* ---------------------------------------------------- cleanup_stale_sessions
\* lines 189-196: probe every session of list(self._sessions.items())
StProbe(t) ==
    /\ thr[t].pc = "st_probe"
    /\ thr' = [thr EXCEPT ![t].pc = "st_loop",
                          ![t].stale = SetToSeq({d \in Devices :
                              /\ _sessions[d] # NoDriver
                              /\ drivers[_sessions[d]].st # "live"}),
                          ![t].port = NoPort]
    /\ UNCHANGED <<_port_pool, _used_ports, _sessions, drivers, ops, tasks, msgs, revoked, dispatching, devices>>

\* lines 198-204: for device_udid in stale: self._cleanup_session(device_udid)
StLoop(t) ==
    /\ thr[t].pc = "st_loop"
    /\ IF thr[t].stale = <<>>
       THEN thr' = [thr EXCEPT ![t].pc = "done", ![t].out = "cleaned"]
       ELSE thr' = [thr EXCEPT ![t].pc = "cl_pop", ![t].dev = Head(thr[t].stale),
                               ![t].stale = Tail(thr[t].stale), ![t].ret = "st_loop"]
    /\ UNCHANGED <<_port_pool, _used_ports, _sessions, drivers, ops, tasks, msgs, revoked, dispatching, devices>>

\* ------------------------------------------------------------- environment
\* the Appium server drops a session (idle timeout, device unplugged, crash)
DriverDies(k) ==
    /\ drivers[k].st = "live"
    /\ drivers' = [drivers EXCEPT ![k].st = "dead"]
    /\ UNCHANGED <<_port_pool, _used_ports, _sessions, thr, ops, tasks, msgs, revoked, dispatching, devices>>

\* ------------------------------------------------------------ specification
PoolStep(t) ==
    \/ CsIn(t) \/ CsGet(t) \/ CsProbe(t) \/ CsMax(t) \/ CsAlloc(t)
    \/ CsNew(t) \/ CsInsert(t) \/ CsRelease(t)
    \/ ClPop(t) \/ ClQuit(t) \/ ClRelease(t)
    \/ StProbe(t) \/ StLoop(t)
    \/ OpReturn(t)

NextPool ==
    \/ \E t \in Threads, d \in Devices : CallCreateSession(t, d)
    \/ \E t \in Threads, d \in Devices : CallCloseSession(t, d)
    \/ \E t \in Threads : CallCleanupStale(t)
    \/ \E t \in Threads : PoolStep(t)
    \/ \E k \in DriverIds : DriverDies(k)

SpecPool == Init /\ [][NextPool]_vars

\* one caller: the pool operations run one after the other, each to its end
NextPoolSeq ==
    \/ \E d \in Devices : CallCreateSession(Min(Threads), d)
    \/ \E d \in Devices : CallCloseSession(Min(Threads), d)
    \/ CallCleanupStale(Min(Threads))
    \/ PoolStep(Min(Threads))
    \/ \E k \in DriverIds : DriverDies(k)

SpecPoolSeq == Init /\ [][NextPoolSeq]_vars

\* SessionManager.get_metrics
get_metrics ==
    [active_sessions |-> active_session_count,
     max_sessions |-> max_sessions,
     available_ports |-> Cardinality(_port_pool),
     used_ports |-> _used_ports,
     active_devices |-> {d \in Devices : _sessions[d] # NoDriver}]

\* pool exhaustion: every device asks for a session once, each from its own
\* thread and all at the same time, and a caller that got a session closes it
\* later; the callers keep what their calls returned.  No session is dropped
\* by the Appium server meanwhile.
XhCreate(t) ==
    /\ t \in Devices
    /\ thr[t].pc = "idle"
    /\ thr' = [thr EXCEPT ![t] = [Idle EXCEPT !.pc = "cs_in", !.op = "create_session", !.dev = t]]
    /\ UNCHANGED <<poolVars, ops, tasks, msgs, revoked, dispatching, devices>>

XhReturn(t) ==
    /\ thr[t].pc = "done"
    /\ thr' = [thr EXCEPT ![t].pc = IF thr[t].out = "created" THEN "xh_created"
                                    ELSE IF thr[t].out = "closed" THEN "xh_closed"
                                    ELSE "xh_failed"]
    /\ UNCHANGED <<poolVars, ops, tasks, msgs, revoked, dispatching, devices>>

XhClose(t) ==
    /\ thr[t].pc = "xh_created"
    /\ thr' = [thr EXCEPT ![t].pc = "cl_pop", ![t].op = "close_session", ![t].ret = "op_end"]
    /\ UNCHANGED <<poolVars, ops, tasks, msgs, revoked, dispatching, devices>>

NextExhaustion ==
    \/ \E t \in Threads : XhCreate(t)
    \/ \E t \in Threads : XhReturn(t)
    \/ \E t \in Threads : XhClose(t)
    \/ \E t \in Threads : CsIn(t)
    \/ \E t \in Threads : CsMax(t)
    \/ \E t \in Threads : CsAlloc(t)
    \/ \E t \in Threads : CsNew(t)
    \/ \E t \in Threads : CsInsert(t)
    \/ \E t \in Threads : CsRelease(t)
    \/ \E t \in Threads : ClPop(t)
    \/ \E t \in Threads : ClQuit(t)
    \/ \E t \in Threads : ClRelease(t)

SpecExhaustion == Init /\ [][NextExhaustion]_vars

(***************************************************************************)
(* Part II  the dispatch plane: the tasks table, the broker, the API's     *)
(*          dispatch and cancel operations (server/services/               *)
(*          task_service.py) and the worker tasks that write task status   *)
(*          (worker/tasks/install_tasks.py, worker/core/                   *)
(*          supabase_client.py).                                           *)
(***************************************************************************)
install_max_retries == 3
install_default_retry_delay == 60

Terminal == {"success", "failed", "cancelled"}
NonTerminal == {"pending", "running", "retrying"}

FreeTaskId == Min({r \in TaskIds : tasks[r].status = "none"} \cup {MaxTasks + 1})
FreeCeleryId == Min({c \in CeleryIds : msgs[c].st = "none"} \cup {MaxMsgs + 1})
ExistingRows == {r \in TaskIds : tasks[r].status # "none"}

\* SupabaseClient.update_task_status (worker): the table after the UPDATE
\* ... WHERE id = key; a key that matches no row updates nothing
Supabase_update_task_status(key, status, result, error, progress) ==
    IF key \in ExistingRows
    THEN [tasks EXCEPT ![key] =
            [@ EXCEPT !.status = status,
                      !.result = IF result # "none" THEN result ELSE @,
                      !.error = IF error # "none" THEN error ELSE @,
                      !.progress = IF progress # NoProgress THEN progress ELSE @,
                      !.started_at = IF status = "running" THEN TRUE ELSE @,
                      !.completed_at = IF status \in {"success", "failed", "cancelled"}
                                       THEN TRUE ELSE @]]
    ELSE tasks

\* TaskService.update_task_status (API)
TaskService_update_task_status(task_id, status, result, error, progress) ==
    IF task_id \in ExistingRows
    THEN [tasks EXCEPT ![task_id] =
            [@ EXCEPT !.status = status,
                      !.started_at = IF status = "running" THEN TRUE ELSE @,
                      !.completed_at = IF status \in {"success", "failed", "cancelled"}
                                       THEN TRUE ELSE @,
                      !.result = IF result # "none" THEN result ELSE @,
                      !.error = IF error # "none" THEN error ELSE @,
                      !.progress = IF progress # NoProgress THEN progress ELSE @]]
    ELSE tasks

\* TaskService.create_task / SupabaseClient.create_task: the inserted row
NewRow(c, name) == [NoRow EXCEPT !.status = "pending", !.celery_task_id = c, !.task_name = name]

\* ------------------------------------------------------------ API: dispatch
\* dispatch_install_apk, first half: send_task(..., kwargs={"device_id": ...});
\* no task_id is passed to the worker
ApiSendInstall(d) ==
    /\ FreeCeleryId \in CeleryIds
    /\ msgs' = [msgs EXCEPT ![FreeCeleryId] =
                   [NoMessage EXCEPT !.st = "queued", !.name = "install_apk", !.dev = d,
                                     !.key = NoKey, !.via = "api"]]
    /\ dispatching' = dispatching \cup {FreeCeleryId}
    /\ UNCHANGED <<poolVars, thr, ops, tasks, revoked, devices>>

\* a dispatch that records the task whether or not send_task has returned
ApiCreateTask_Unsent(c) ==
    /\ FreeTaskId \in TaskIds
    /\ tasks' = [tasks EXCEPT ![FreeTaskId] = NewRow(c, msgs[c].name)]
    /\ dispatching' = dispatching \ {c}
    /\ UNCHANGED <<poolVars, thr, ops, msgs, revoked, devices>>

\* dispatch_*, second half: create_task inserts the row with status pending
ApiCreateTask(c) ==
    /\ c \in dispatching
    /\ FreeTaskId \in TaskIds
    /\ tasks' = [tasks EXCEPT ![FreeTaskId] = NewRow(c, msgs[c].name)]
    /\ dispatching' = dispatching \ {c}
    /\ UNCHANGED <<poolVars, thr, ops, msgs, revoked, devices>>

\* create_task raises (insert failed or returned no data): no row
ApiCreateTaskFails(c) ==
    /\ c \in dispatching
    /\ dispatching' = dispatching \ {c}
    /\ UNCHANGED <<poolVars, thr, ops, tasks, msgs, revoked, devices>>

\* a Celery client that records the task first (SupabaseClient.create_task
\* with the Celery id) and passes the row id as install_apk's task_id argument
ClientDispatchInstall(d) ==
    /\ FreeCeleryId \in CeleryIds
    /\ FreeTaskId \in TaskIds
    /\ tasks' = [tasks EXCEPT ![FreeTaskId] = NewRow(FreeCeleryId, "install_apk")]
    /\ msgs' = [msgs EXCEPT ![FreeCeleryId] =
                   [NoMessage EXCEPT !.st = "queued", !.name = "install_apk", !.dev = d,
                                     !.key = FreeTaskId, !.via = "client"]]
    /\ UNCHANGED <<poolVars, thr, ops, revoked, dispatching, devices>>

\* ------------------------------------------------------------- API: cancel
\* cancel_task: get_task; revoke(celery_task_id, terminate=True);
\* update_task_status(task_id, CANCELLED)
cancel_task(task_id) ==
    /\ task_id \in ExistingRows
    /\ revoked' = revoked \cup {tasks[task_id].celery_task_id}
    /\ tasks' = TaskService_update_task_status(task_id, "cancelled", "none", "none", NoProgress)
    /\ UNCHANGED <<poolVars, thr, ops, msgs, dispatching, devices>>

\* ------------------------------------------------------------------ worker
FirstPc(name) == IF name = "install_apk" THEN "ia_running10" ELSE "cs_in"

\* the worker takes a message from its queue and runs the task on a free thread
WorkerStart(t, c) ==
    /\ t = Min(IdleThreads \cup {NumThreads + 1})
    /\ msgs[c].st = "queued"
    /\ msgs' = [msgs EXCEPT ![c].st = "running"]
    /\ thr' = [thr EXCEPT ![t] = [Idle EXCEPT !.pc = FirstPc(msgs[c].name), !.op = msgs[c].name,
                                              !.dev = msgs[c].dev, !.msg = c]]
    /\ UNCHANGED <<poolVars, tasks, revoked, dispatching, devices>>

\* a revoked message is dropped when the worker receives it
WorkerDiscard(c) ==
    /\ msgs[c].st = "queued"
    /\ c \in revoked
    /\ msgs' = [msgs EXCEPT ![c].st = "revoked"]
    /\ UNCHANGED <<poolVars, thr, ops, tasks, revoked, dispatching, devices>>

\* terminate=True: the revoke reaches the worker and the running task is killed
WorkerTerminate(t) ==
    /\ thr[t].msg # NoMsg
    /\ thr[t].msg \in revoked
    /\ msgs' = [msgs EXCEPT ![thr[t].msg].st = "terminated"]
    /\ thr' = [thr EXCEPT ![t] = Idle]
    /\ UNCHANGED <<poolVars, ops, tasks, revoked, dispatching, devices>>

StartInstall(t, c) ==
    /\ msgs[c].name = "install_apk"
    /\ WorkerStart(t, c)
    /\ UNCHANGED ops

\* automation attempts use the session pool and count as pool operations
StartAppium(t, c) ==
    /\ msgs[c].name = "run_youtube_appium"
    /\ ops < MaxOps
    /\ ops' = ops + 1
    /\ WorkerStart(t, c)

TaskReturns(c, ok, code) == [msgs EXCEPT ![c].st = "finished", ![c].success = ok, ![c].error_code = code]

\* ------------------------------------------------------- install_apk (worker)
\* lines 67-80: status running, progress 10; then the APK path check
IaRunning10(t) ==
    /\ thr[t].pc = "ia_running10"
    /\ tasks' = Supabase_update_task_status(msgs[thr[t].msg].key, "running", "none", "none", 10)
    /\ \E apk_exists \in BOOLEAN :
          thr' = [thr EXCEPT ![t].pc = IF apk_exists THEN "ia_running30" ELSE "ia_not_found"]
    /\ UNCHANGED <<poolVars, ops, msgs, revoked, dispatching, devices>>

\* lines 82-98: status running, progress 30; then adb install
IaRunning30(t) ==
    /\ thr[t].pc = "ia_running30"
    /\ tasks' = Supabase_update_task_status(msgs[thr[t].msg].key, "running", "none", "none", 30)
    /\ \E installed \in BOOLEAN :
          thr' = [thr EXCEPT ![t].pc =
                     IF installed THEN "ia_success"
                     ELSE IF msgs[thr[t].msg].retries < install_max_retries
                          THEN "ia_retrying" ELSE "ia_failed"]
    /\ UNCHANGED <<poolVars, ops, msgs, revoked, dispatching, devices>>

\* lines 109-120: status success, progress 100, result; return result
IaSuccess(t) ==
    /\ thr[t].pc = "ia_success"
    /\ tasks' = Supabase_update_task_status(msgs[thr[t].msg].key, "success", "result", "none", 100)
    /\ msgs' = TaskReturns(thr[t].msg, TRUE, "none")
    /\ thr' = [thr EXCEPT ![t] = Idle]
    /\ UNCHANGED <<poolVars, ops, revoked, dispatching, devices>>

\* lines 122-130: FileNotFoundError: status failed; return result
IaNotFound(t) ==
    /\ thr[t].pc = "ia_not_found"
    /\ tasks' = Supabase_update_task_status(msgs[thr[t].msg].key, "failed", "none", "error", NoProgress)
    /\ msgs' = TaskReturns(thr[t].msg, FALSE, "none")
    /\ thr' = [thr EXCEPT ![t] = Idle]
    /\ UNCHANGED <<poolVars, ops, revoked, dispatching, devices>>

\* lines 136-143: status retrying; self.retry(exc=exc) re-queues the task
IaRetrying(t) ==
    /\ thr[t].pc = "ia_retrying"
    /\ tasks' = Supabase_update_task_status(msgs[thr[t].msg].key, "retrying", "none", "none", NoProgress)
    /\ msgs' = [msgs EXCEPT ![thr[t].msg].st = "queued", ![thr[t].msg].retries = @ + 1,
                             ![thr[t].msg].countdown = install_default_retry_delay]
    /\ thr' = [thr EXCEPT ![t] = Idle]
    /\ UNCHANGED <<poolVars, ops, revoked, dispatching, devices>>

\* lines 144-150: retries exhausted: status failed; return result
IaFailed(t) ==
    /\ thr[t].pc = "ia_failed"
    /\ tasks' = Supabase_update_task_status(msgs[thr[t].msg].key, "failed", "none", "error", NoProgress)
    /\ msgs' = TaskReturns(thr[t].msg, FALSE, "none")
    /\ thr' = [thr EXCEPT ![t] = Idle]
    /\ UNCHANGED <<poolVars, ops, revoked, dispatching, devices>>

InstallStep(t) ==
    \/ IaRunning10(t) \/ IaRunning30(t) \/ IaSuccess(t)
    \/ IaNotFound(t) \/ IaRetrying(t) \/ IaFailed(t)

\* the device plays no part in the status writes: installs go to one device
InstallDevices == {Min(Devices)}

NextTasks ==
    \/ \E d \in InstallDevices : ApiSendInstall(d)
    \/ \E c \in CeleryIds : ApiCreateTask(c)
    \/ \E c \in CeleryIds : ApiCreateTaskFails(c)
    \/ \E d \in InstallDevices : ClientDispatchInstall(d)
    \/ \E r \in TaskIds : cancel_task(r)
    \/ \E t \in Threads, c \in CeleryIds : StartInstall(t, c)
    \/ \E c \in CeleryIds : WorkerDiscard(c)
    \/ \E t \in Threads : WorkerTerminate(t)
    \/ \E t \in Threads : InstallStep(t)

SpecTasks == Init /\ [][NextTasks]_vars


(***************************************************************************)
(* Part III the automation job: error classification and recovery          *)
(*          decisions (worker/youtube/error_recovery.py), and the task     *)
(*          adapter run_youtube_appium (worker/tasks/appium_tasks.py):     *)
(*          create_session, execute_job, report, finally close_session.    *)
(***************************************************************************)
MAX_RETRY_COUNT == 3
RETRY_BASE_DELAY_SEC == 5
RETRY_MAX_DELAY_SEC == 60
NETWORK_CHECK_INTERVAL_SEC == 10
appium_max_retries == 2
appium_retry_countdown == 30
JobParams_retry_count == 0

NON_RETRYABLE_ERROR_CODES == {"E2001", "E2002", "E3002", "E3004"}

RETRYABLE_ERROR_CODES == {"E1001", "E1002", "E1003", "E2004", "E3001", "E3003",
                          "E4001", "E4002", "E4003"}

\* ErrorRecovery.is_retryable
is_retryable(error_code) == error_code \in RETRYABLE_ERROR_CODES

RECURSIVE Pow2(_)
Pow2(k) == IF k = 0 THEN 1 ELSE 2 * Pow2(k - 1)

\* An exception is its type (WebDriverException or not) and the set of the
\* classifier's substrings that occur in its lower-cased message.
Exc(wde, words) == [wde |-> wde, words |-> words]

\* ErrorRecovery.classify_error
classify_error(e) ==
    LET has(w) == w \in e.words IN
    IF e.wde THEN
        IF has("session") /\ (has("not found") \/ has("expired")) THEN "E4002"
        ELSE IF has("no such element") THEN "E2001"
        ELSE "E4003"
    ELSE IF has("network") \/ has("connection") \/ has("timeout") THEN
        IF has("timeout") THEN "E1002" ELSE "E1001"
    ELSE IF has("unavailable") \/ has("not found") THEN "E2001"
    ELSE IF has("region") \/ has("blocked") THEN "E2002"
    ELSE IF has("age") \/ has("restricted") THEN "E2003"
    ELSE IF has("stall") \/ has("frozen") THEN "E2004"
    ELSE IF has("crash") THEN "E3001"
    ELSE IF has("memory") THEN "E3002"
    ELSE IF has("lock") \/ has("screen") THEN "E3003"
    ELSE IF has("battery") THEN "E3004"
    ELSE "E4001"

Min2(a, b) == IF a <= b THEN a ELSE b

Max2(a, b) == IF a >= b THEN a ELSE b

\* handle_error with the retry limit tested one too late (>) and the
\* non-retryable test after it
handle_error_LateLimit(error_code, retry_count) ==
    IF retry_count > MAX_RETRY_COUNT \/ error_code \in NON_RETRYABLE_ERROR_CODES
                                      \cup {"E4002", "E4003"} THEN
        [action |-> "fail", delay |-> 0, new_retry_count |-> retry_count, error_code |-> error_code]
    ELSE IF error_code = "E1001" THEN
        [action |-> "wait_network", delay |-> NETWORK_CHECK_INTERVAL_SEC,
         new_retry_count |-> retry_count + 1, error_code |-> error_code]
    ELSE IF error_code = "E3001" THEN
        [action |-> "restart_app", delay |-> 5, new_retry_count |-> retry_count + 1,
         error_code |-> error_code]
    ELSE IF error_code = "E3003" THEN
        [action |-> "unlock_screen", delay |-> 2, new_retry_count |-> retry_count + 1,
         error_code |-> error_code]
    ELSE
        [action |-> "retry",
         delay |-> Min2(RETRY_BASE_DELAY_SEC * Pow2(retry_count), RETRY_MAX_DELAY_SEC),
         new_retry_count |-> retry_count + 1, error_code |-> error_code]

\* handle_error with a linear instead of an exponential back-off
handle_error_LinearDelay(error_code, retry_count) ==
    IF error_code \in NON_RETRYABLE_ERROR_CODES \cup {"E4002", "E4003"}
       \/ retry_count >= MAX_RETRY_COUNT THEN
        [action |-> "fail", delay |-> 0, new_retry_count |-> retry_count, error_code |-> error_code]
    ELSE IF error_code = "E1001" THEN
        [action |-> "wait_network", delay |-> NETWORK_CHECK_INTERVAL_SEC,
         new_retry_count |-> retry_count + 1, error_code |-> error_code]
    ELSE IF error_code = "E3001" THEN
        [action |-> "restart_app", delay |-> 5, new_retry_count |-> retry_count + 1,
         error_code |-> error_code]
    ELSE IF error_code = "E3003" THEN
        [action |-> "unlock_screen", delay |-> 2, new_retry_count |-> retry_count + 1,
         error_code |-> error_code]
    ELSE
        [action |-> "retry",
         delay |-> Min2(RETRY_BASE_DELAY_SEC * (retry_count + 1), RETRY_MAX_DELAY_SEC),
         new_retry_count |-> retry_count + 1, error_code |-> error_code]

\* ErrorRecovery.handle_error
handle_error(error_code, retry_count) ==
    IF error_code \in NON_RETRYABLE_ERROR_CODES THEN
        [action |-> "fail", delay |-> 0, new_retry_count |-> retry_count, error_code |-> error_code]
    ELSE IF retry_count >= MAX_RETRY_COUNT THEN
        [action |-> "fail", delay |-> 0, new_retry_count |-> retry_count, error_code |-> error_code]
    ELSE IF error_code = "E1001" THEN
        [action |-> "wait_network", delay |-> NETWORK_CHECK_INTERVAL_SEC,
         new_retry_count |-> retry_count + 1, error_code |-> error_code]
    ELSE IF error_code = "E3001" THEN
        [action |-> "restart_app", delay |-> 5, new_retry_count |-> retry_count + 1,
         error_code |-> error_code]
    ELSE IF error_code = "E3003" THEN
        [action |-> "unlock_screen", delay |-> 2, new_retry_count |-> retry_count + 1,
         error_code |-> error_code]
    ELSE IF error_code \in {"E4002", "E4003"} THEN
        [action |-> "fail", delay |-> 0, new_retry_count |-> retry_count, error_code |-> error_code]
    ELSE
        [action |-> "retry",
         delay |-> Min2(RETRY_BASE_DELAY_SEC * Pow2(retry_count), RETRY_MAX_DELAY_SEC),
         new_retry_count |-> retry_count + 1, error_code |-> error_code]

\* exceptions execute_job catches: the orchestrator's own RuntimeErrors
\* ("YouTube failed to launch": no classifier substring; "Playback stalled
\* after ..s": "stall") and a WebDriverException of a driver call
JobExceptions ==
    { Exc(FALSE, {}), Exc(FALSE, {"stall"}), Exc(TRUE, {}) }

\* --------------------------------------------------- API: dispatch (appium)
\* dispatch_run_appium_bot, first half: send_task with device_udid and the
\* caller's assignment_id (a free string: no row's id, or an existing row's)
ApiSendAppium(d, assignment_id) ==
    /\ FreeCeleryId \in CeleryIds
    /\ assignment_id \in {NoKey} \cup ExistingRows
    /\ msgs' = [msgs EXCEPT ![FreeCeleryId] =
                   [NoMessage EXCEPT !.st = "queued", !.name = "run_youtube_appium", !.dev = d,
                                     !.key = assignment_id, !.via = "api"]]
    /\ dispatching' = dispatching \cup {FreeCeleryId}
    /\ UNCHANGED <<poolVars, thr, ops, tasks, revoked, devices>>

\* ------------------------------------------------ run_youtube_appium (worker)
\* the keyword arguments execute_job passes to perform_interactions, and the
\* parameters perform_interactions declares
ExecuteJobKwargs == {"prob_like", "prob_comment", "prob_subscribe", "prob_playlist", "comment_text"}

\* perform_interactions declaring the playlist probability as well
PerformInteractionsParams_WithPlaylist ==
    {"prob_like", "prob_comment", "prob_subscribe", "prob_playlist", "comment_text"}

PerformInteractionsParams == {"prob_like", "prob_comment", "prob_subscribe", "comment_text"}

\* the call of perform_interactions binds: no undeclared keyword is passed
InteractionsCallable == ExecuteJobKwargs \subseteq PerformInteractionsParams

\* lines 85-109: orchestrator.execute_job(params) as one step: a JobResult
\* (success only if the job gets past its interaction step; else failure
\* with the classified error code; no recovery is attempted, the job's
\* retry_count stays at its default), or the one exception that escapes
\* execute_job, the OSError of evidence.start_job
YtJob(t) ==
    /\ thr[t].pc = "yt_job"
    /\ \/ /\ InteractionsCallable
          /\ thr' = [thr EXCEPT ![t].pc = "yt_report", ![t].success = TRUE, ![t].error_code = "none"]
       \/ \E e \in JobExceptions :
             thr' = [thr EXCEPT ![t].pc = "yt_report", ![t].success = FALSE,
                                ![t].error_code = classify_error(e)]
       \/ thr' = [thr EXCEPT ![t].pc = "yt_report_failure", ![t].exc = "Exception"]
    /\ UNCHANGED <<poolVars, ops, tasks, msgs, revoked, dispatching, devices>>

\* _report_to_supabase: status "completed" with the result, or "failed" with
\* error and error_code (lines 185-212); then return, through finally
YtReport(t) ==
    /\ thr[t].pc = "yt_report"
    /\ tasks' = IF thr[t].success
                THEN Supabase_update_task_status(msgs[thr[t].msg].key, "completed", "result", "none", 100)
                ELSE Supabase_update_task_status(msgs[thr[t].msg].key, "failed", thr[t].error_code,
                                                 "error", NoProgress)
    /\ thr' = [thr EXCEPT ![t].pc = "cl_pop", ![t].ret = "yt_return"]
    /\ UNCHANGED <<poolVars, ops, msgs, revoked, dispatching, devices>>

\* YtReportFailure without the test request.retries < max_retries
YtReportFailure_NoRetryLimit(t) ==
    /\ thr[t].pc = "yt_report_failure"
    /\ tasks' = Supabase_update_task_status(msgs[thr[t].msg].key, "failed", "none", "error", NoProgress)
    /\ LET after == IF thr[t].exc = "WebDriverException" THEN "yt_retry" ELSE "yt_raise"
       IN thr' = IF thr[t].driver # NoDriver
                 THEN [thr EXCEPT ![t].pc = "cl_pop", ![t].ret = after]
                 ELSE [thr EXCEPT ![t].pc = after]
    /\ UNCHANGED <<poolVars, ops, msgs, revoked, dispatching, devices>>

\* lines 129-152: _report_failure_to_supabase; retry on WebDriverException
\* while request.retries < max_retries, else re-raise; finally close_session
\* if a driver was obtained
YtReportFailure(t) ==
    /\ thr[t].pc = "yt_report_failure"
    /\ tasks' = Supabase_update_task_status(msgs[thr[t].msg].key, "failed", "none", "error", NoProgress)
    /\ LET after == IF thr[t].exc = "WebDriverException"
                       /\ msgs[thr[t].msg].retries < appium_max_retries
                    THEN "yt_retry" ELSE "yt_raise"
       IN thr' = IF thr[t].driver # NoDriver
                 THEN [thr EXCEPT ![t].pc = "cl_pop", ![t].ret = after]
                 ELSE [thr EXCEPT ![t].pc = after]
    /\ UNCHANGED <<poolVars, ops, msgs, revoked, dispatching, devices>>

\* the attempt ends: the task returns its result, is re-queued by self.retry
\* (countdown 30 s), or fails for good
YtEnd(t) ==
    /\ thr[t].pc \in {"yt_return", "yt_retry", "yt_raise"}
    /\ msgs' = CASE thr[t].pc = "yt_return" ->
                      [msgs EXCEPT ![thr[t].msg].st = "finished",
                                   ![thr[t].msg].success = thr[t].success,
                                   ![thr[t].msg].error_code = thr[t].error_code,
                                   ![thr[t].msg].job_retries = JobParams_retry_count]
                 [] thr[t].pc = "yt_retry" ->
                      [msgs EXCEPT ![thr[t].msg].st = "queued", ![thr[t].msg].retries = @ + 1,
                                   ![thr[t].msg].countdown = appium_retry_countdown]
                 [] OTHER -> [msgs EXCEPT ![thr[t].msg].st = "failed"]
    /\ thr' = [thr EXCEPT ![t] = Idle]
    /\ UNCHANGED <<poolVars, ops, tasks, revoked, dispatching, devices>>

AppiumStep(t) ==
    \/ CsIn(t) \/ CsGet(t) \/ CsProbe(t) \/ CsMax(t) \/ CsAlloc(t)
    \/ CsNew(t) \/ CsInsert(t) \/ CsRelease(t)
    \/ ClPop(t) \/ ClQuit(t) \/ ClRelease(t)
    \/ YtJob(t) \/ YtReport(t) \/ YtReportFailure(t) \/ YtEnd(t)

\* automation jobs are dispatched to one device, so that they can overlap on it
AppiumDevices == {Min(Devices)}

NextAppium ==
    \/ \E d \in AppiumDevices, k \in {NoKey} \cup TaskIds : ApiSendAppium(d, k)
    \/ \E c \in CeleryIds : ApiCreateTask(c)
    \/ \E c \in CeleryIds : ApiCreateTaskFails(c)
    \/ \E t \in Threads, c \in CeleryIds : StartAppium(t, c)
    \/ \E t \in Threads : AppiumStep(t)

SpecAppium == Init /\ [][NextAppium]_vars

\* one worker slot: the attempts of the dispatched tasks run one after the
\* other, each task as often as self.retry re-queues it
StartAttempt(t, c) ==
    /\ msgs[c].name = "run_youtube_appium"
    /\ WorkerStart(t, c)
    /\ UNCHANGED ops

SeqSendAppium(d, assignment_id) ==
    /\ FreeCeleryId <= SeqMsgs
    /\ ApiSendAppium(d, assignment_id)

\* every attempt closes its session before the next one starts, so line 100
\* never finds the device in the pool: the reuse branch (lines 101-110) has
\* no step here
SeqAppiumStep(t) ==
    \/ CsIn(t) \/ CsMax(t) \/ CsAlloc(t)
    \/ CsNew(t) \/ CsInsert(t) \/ CsRelease(t)
    \/ ClPop(t) \/ ClQuit(t) \/ ClRelease(t)
    \/ YtJob(t) \/ YtReport(t) \/ YtReportFailure(t) \/ YtEnd(t)

NextAppiumSeq ==
    \/ \E d \in AppiumDevices, k \in {NoKey} \cup TaskIds : SeqSendAppium(d, k)
    \/ \E c \in CeleryIds : ApiCreateTask(c)
    \/ \E c \in CeleryIds : ApiCreateTaskFails(c)
    \/ \E c \in CeleryIds : StartAttempt(Min(Threads), c)
    \/ SeqAppiumStep(Min(Threads))

SpecAppiumSeq == Init /\ [][NextAppiumSeq]_vars


(***************************************************************************)
(* Part IV  one automation job: YouTubeBotOrchestrator.execute_job         *)
(*          (youtube/bot_orchestrator.py) with EvidenceCapture and         *)
(*          YouTubeInteractions.perform_interactions                       *)
(*          (youtube/youtube_actions.py), on one thread.                   *)
(***************************************************************************)
\* probabilities a job is given: never, sometimes, always
Probs == {0, 50, 100}

\* random.randint(1, 100) <= prob, for prob > 0
Drawn(prob) == {r \in {1, 50, 51, 100} : prob > 0 /\ r <= prob}

ErrorCodes == {"E1001", "E1002", "E1003", "E2001", "E2002", "E2003", "E2004",
               "E3001", "E3002", "E3003", "E3004", "E4001", "E4002", "E4003"}

\* execute_job is called with JobParams on a device in some state
CallExecuteJob(t, target_url, prob_like, prob_comment, prob_subscribe, like_btn) ==
    /\ t = Min(IdleThreads \cup {NumThreads + 1})
    /\ ops < MaxOps
    /\ ops' = ops + 1
    /\ thr' = [thr EXCEPT ![t] =
                  [Idle EXCEPT !.pc = "ej_start", !.op = "execute_job",
                               !.job = [NoJob EXCEPT !.target_url = target_url,
                                                     !.prob_like = prob_like,
                                                     !.prob_comment = prob_comment,
                                                     !.prob_subscribe = prob_subscribe,
                                                     !.like_btn = like_btn]]]
    /\ UNCHANGED <<poolVars, tasks, msgs, revoked, dispatching, devices>>

\* perform_interactions is called directly (a fresh YouTubeInteractions)
CallPerformInteractions(t, prob_like, prob_comment, prob_subscribe, like_btn) ==
    /\ t = Min(IdleThreads \cup {NumThreads + 1})
    /\ ops < MaxOps
    /\ ops' = ops + 1
    /\ thr' = [thr EXCEPT ![t] =
                  [Idle EXCEPT !.pc = "pi_like", !.op = "perform_interactions",
                               !.job = [NoJob EXCEPT !.prob_like = prob_like,
                                                     !.prob_comment = prob_comment,
                                                     !.prob_subscribe = prob_subscribe,
                                                     !.like_btn = like_btn]]]
    /\ UNCHANGED <<poolVars, tasks, msgs, revoked, dispatching, devices>>

\* an exception raised inside the try block of execute_job
JobRaise(t, e) == [thr[t] EXCEPT !.pc = "ej_except", !.job.raised = e]

\* line 127: self.evidence.start_job(assignment_id), before the try block:
\* os.makedirs may raise, and then nothing of execute_job catches it
EjStart(t) ==
    /\ thr[t].pc = "ej_start"
    /\ \/ thr' = [thr EXCEPT ![t].pc = "ej_launch", ![t].job.current_job = TRUE]
       \/ thr' = [thr EXCEPT ![t].pc = "ej_raised", ![t].exc = "OSError"]
    /\ UNCHANGED <<poolVars, ops, tasks, msgs, revoked, dispatching, devices>>

\* lines 136-139: progress 5 (callback errors are swallowed), _launch_youtube
EjLaunch(t) ==
    /\ thr[t].pc = "ej_launch"
    /\ \/ thr' = [thr EXCEPT ![t].pc = "ej_navigate"]
       \/ \E e \in {Exc(FALSE, {}), Exc(TRUE, {})} : thr' = [thr EXCEPT ![t] = JobRaise(t, e)]
    /\ UNCHANGED <<poolVars, ops, tasks, msgs, revoked, dispatching, devices>>

\* lines 141-147: _navigate_to_video; False raises "Failed to navigate to video"
EjNavigate(t) ==
    /\ thr[t].pc = "ej_navigate"
    /\ \/ thr' = [thr EXCEPT ![t].pc = "ej_watch", ![t].job.search_success = TRUE]
       \/ \E e \in {Exc(FALSE, {}), Exc(TRUE, {})} : thr' = [thr EXCEPT ![t] = JobRaise(t, e)]
    /\ UNCHANGED <<poolVars, ops, tasks, msgs, revoked, dispatching, devices>>

\* lines 149-159: _watch_video returns, or raises "Playback stalled ...",
\* "YouTube crashed ...", a WebDriverException; then the device timeout test
\* ("Device timeout: ...")
EjWatch(t) ==
    /\ thr[t].pc = "ej_watch"
    /\ \/ thr' = [thr EXCEPT ![t].pc = "ej_interact"]
       \/ \E e \in {Exc(FALSE, {"stall"}), Exc(FALSE, {"crash"}), Exc(FALSE, {"timeout"}),
                   Exc(TRUE, {})} :
             thr' = [thr EXCEPT ![t] = JobRaise(t, e)]
    /\ UNCHANGED <<poolVars, ops, tasks, msgs, revoked, dispatching, devices>>

\* where perform_interactions returns: to execute_job (lines 170-182: the
\* did_* results, progress 100, success, capture_on_watch_end, then finally)
\* or to a direct caller
AfterInteractions(j, op) ==
    IF op = "execute_job"
    THEN [pc |-> "ej_finally", job |-> [j EXCEPT !.success = TRUE]]
    ELSE [pc |-> "pi_returned", job |-> j]

\* lines 161-169: progress 85, then the call
\* perform_interactions(prob_like=, prob_comment=, prob_subscribe=,
\* prob_playlist=, comment_text=): an undeclared keyword is a TypeError
EjInteract(t) ==
    /\ thr[t].pc = "ej_interact"
    /\ IF InteractionsCallable
       THEN thr' = [thr EXCEPT ![t].pc = "pi_like", ![t].job.interacting = TRUE]
       ELSE thr' = [thr EXCEPT ![t] = [JobRaise(t, Exc(FALSE, {})) EXCEPT !.job.interacting = TRUE]]
    /\ UNCHANGED <<poolVars, ops, tasks, msgs, revoked, dispatching, devices>>

\* youtube_actions.py lines 92-94 and _try_like (112-134): the button is
\* absent, already liked, or tapped; every exception is swallowed
PiLike(t) ==
    /\ thr[t].pc = "pi_like"
    /\ LET j == thr[t].job IN
       \/ /\ \E r \in {1, 50, 51, 100} : r \notin Drawn(j.prob_like)
          /\ thr' = [thr EXCEPT ![t].pc = "pi_comment"]
       \/ /\ Drawn(j.prob_like) # {}
          /\ \E done \in
                 CASE j.like_btn = "present" ->
                        { [j EXCEPT !.like_taps = @ + 1, !.did_like = TRUE],
                          [j EXCEPT !.like_taps = @ + 1] }
                   [] j.like_btn = "liked" -> { [j EXCEPT !.did_like = TRUE] }
                   [] OTHER -> { j } :
                thr' = [thr EXCEPT ![t].pc = "pi_comment",
                                   ![t].job = [done EXCEPT !.log = Append(@, "like")]]
    /\ UNCHANGED <<poolVars, ops, tasks, msgs, revoked, dispatching, devices>>

\* lines 96-99 and _try_comment (136-186)
PiComment(t) ==
    /\ thr[t].pc = "pi_comment"
    /\ LET j == thr[t].job IN
       \/ /\ \E r \in {1, 50, 51, 100} : r \notin Drawn(j.prob_comment)
          /\ thr' = [thr EXCEPT ![t].pc = "pi_subscribe"]
       \/ /\ Drawn(j.prob_comment) # {}
          /\ \E posted \in BOOLEAN :
                thr' = [thr EXCEPT ![t].pc = "pi_subscribe",
                                   ![t].job = [j EXCEPT !.did_comment = posted,
                                                        !.log = Append(@, "comment")]]
    /\ UNCHANGED <<poolVars, ops, tasks, msgs, revoked, dispatching, devices>>

\* lines 101-110 and _try_subscribe (188-210); then the result dict
PiSubscribe(t) ==
    /\ thr[t].pc = "pi_subscribe"
    /\ LET j == thr[t].job IN
       \/ /\ \E r \in {1, 50, 51, 100} : r \notin Drawn(j.prob_subscribe)
          /\ thr' = [thr EXCEPT ![t].pc = AfterInteractions(j, thr[t].op).pc,
                                ![t].job = AfterInteractions(j, thr[t].op).job]
       \/ /\ Drawn(j.prob_subscribe) # {}
          /\ \E subscribed \in BOOLEAN :
                LET k == [j EXCEPT !.did_subscribe = subscribed, !.log = Append(@, "subscribe")]
                IN thr' = [thr EXCEPT ![t].pc = AfterInteractions(k, thr[t].op).pc,
                                      ![t].job = AfterInteractions(k, thr[t].op).job]
    /\ UNCHANGED <<poolVars, ops, tasks, msgs, revoked, dispatching, devices>>

\* lines 184-198: except Exception: classify_error, success False,
\* capture_on_error (which swallows its own errors)
EjExcept(t) ==
    /\ thr[t].pc = "ej_except"
    /\ thr' = [thr EXCEPT ![t].pc = "ej_finally",
                          ![t].job.error_code = classify_error(thr[t].job.raised),
                          ![t].job.success = FALSE]
    /\ UNCHANGED <<poolVars, ops, tasks, msgs, revoked, dispatching, devices>>

\* lines 200-222: finally: evidence.finish_job; return result
EjFinally(t) ==
    /\ thr[t].pc = "ej_finally"
    /\ thr' = [thr EXCEPT ![t].pc = "ej_returned",
                          ![t].job.finished = thr[t].job.current_job,
                          ![t].job.current_job = FALSE]
    /\ UNCHANGED <<poolVars, ops, tasks, msgs, revoked, dispatching, devices>>

\* the caller has the JobResult, the result dict, or the exception
JobReturn(t) ==
    /\ thr[t].pc \in {"ej_returned", "ej_raised", "pi_returned"}
    /\ thr' = [thr EXCEPT ![t] = Idle]
    /\ UNCHANGED <<poolVars, ops, tasks, msgs, revoked, dispatching, devices>>

JobStep(t) ==
    \/ EjStart(t) \/ EjLaunch(t) \/ EjNavigate(t) \/ EjWatch(t) \/ EjInteract(t)
    \/ PiLike(t) \/ PiComment(t) \/ PiSubscribe(t)
    \/ EjExcept(t) \/ EjFinally(t) \/ JobReturn(t)

LikeButtons == {"absent", "present", "liked"}

NextJob ==
    \/ \E target_url \in BOOLEAN, pl \in Probs, pc \in Probs, ps \in Probs, b \in LikeButtons :
          CallExecuteJob(Min(Threads), target_url, pl, pc, ps, b)
    \/ \E pl \in Probs, pc \in Probs, ps \in Probs, b \in LikeButtons :
          CallPerformInteractions(Min(Threads), pl, pc, ps, b)
    \/ JobStep(Min(Threads))

SpecJob == Init /\ [][NextJob]_vars


(***************************************************************************)
(* Part V   the recovery decision: ErrorRecovery.handle_error              *)
(*          (youtube/error_recovery.py) called with any error code and     *)
(*          retry count.                                                   *)
(***************************************************************************)
RetryCounts == 0..MaxRetryArg

CallHandleError(t, error_code, retry_count) ==
    /\ t = Min(IdleThreads \cup {NumThreads + 1})
    /\ thr' = [thr EXCEPT ![t] = [Idle EXCEPT !.pc = "he_call", !.op = "handle_error",
                                              !.error_code = error_code,
                                              !.retry_count = retry_count]]
    /\ UNCHANGED <<poolVars, ops, tasks, msgs, revoked, dispatching, devices>>

\* lines 136-220: the RecoveryAction is computed and returned
HeDecide(t) ==
    /\ thr[t].pc = "he_call"
    /\ thr' = [thr EXCEPT ![t].pc = "he_done",
                          ![t].recovery = handle_error(thr[t].error_code, thr[t].retry_count)]
    /\ UNCHANGED <<poolVars, ops, tasks, msgs, revoked, dispatching, devices>>

HeReturn(t) ==
    /\ thr[t].pc = "he_done"
    /\ thr' = [thr EXCEPT ![t] = Idle]
    /\ UNCHANGED <<poolVars, ops, tasks, msgs, revoked, dispatching, devices>>

NextRecovery ==
    \/ \E code \in ErrorCodes, k \in RetryCounts : CallHandleError(Min(Threads), code, k)
    \/ HeDecide(Min(Threads))
    \/ HeReturn(Min(Threads))

SpecRecovery == Init /\ [][NextRecovery]_vars


(***************************************************************************)
(* Part VI  the API's dispatch operations alone (task_service.py):         *)
(*          send_task, which may raise, then create_task.                  *)
(***************************************************************************)
TaskNames == {"install_apk", "run_youtube_appium"}

\* send_task raises (broker unreachable): dispatch_* ends with the exception
\* before create_task; the slot keeps the attempted send for the record
ApiSendFails(name, d) ==
    /\ FreeCeleryId \in CeleryIds
    /\ msgs' = [msgs EXCEPT ![FreeCeleryId] =
                   [NoMessage EXCEPT !.st = "unsent", !.name = name, !.dev = d, !.via = "api"]]
    /\ UNCHANGED <<poolVars, thr, ops, tasks, revoked, dispatching, devices>>

NextDispatch ==
    \/ \E d \in InstallDevices : ApiSendInstall(d)
    \/ \E d \in AppiumDevices, k \in {NoKey} \cup TaskIds : ApiSendAppium(d, k)
    \/ \E name \in TaskNames, d \in InstallDevices : ApiSendFails(name, d)
    \/ \E c \in CeleryIds : ApiCreateTask(c)
    \/ \E c \in CeleryIds : ApiCreateTaskFails(c)
    \/ \E r \in TaskIds : cancel_task(r)

SpecDispatch == Init /\ [][NextDispatch]_vars


(***************************************************************************)
(* Part VII the dispatch endpoints (server/routers/tasks.py,               *)
(*          server/routers/devices.py) on top of TaskService.dispatch_*:   *)
(*          look up the device or host, validate, resolve the queue, send, *)
(*          insert the row, respond.                                       *)
(***************************************************************************)
\* host numbers as the hosts table stores them, and the spellings a request
\* may use for them
HostNumbers == {"PC01", "PC02"}

Spellings == {"PC01", "Pc01", "pc01", "PC02", "Pc02", "pc02"}

\* str.lower() and str.upper() on these strings
ToLower(str) ==
    CASE str \in {"PC01", "Pc01", "pc01"} -> "pc01"
      [] str \in {"PC02", "Pc02", "pc02"} -> "pc02"
      [] OTHER -> str

ToUpper(str) ==
    CASE str \in {"PC01", "Pc01", "pc01"} -> "PC01"
      [] str \in {"PC02", "Pc02", "pc02"} -> "PC02"
      [] OTHER -> str

\* Field(pattern=r"^PC\d{2}$") of ScanDevicesRequest.pc_number
MatchesPcPattern(str) == str \in {"PC01", "PC02"}

DeviceStatuses == {"online", "offline", "busy", "error"}

\* endpoints addressed by device id, by host number, by host id
DeviceEndpoints == {"install", "health_check", "run_bot", "stop_bot",
                    "run_appium_bot", "stop_appium_session"}

NumberEndpoints == {"scan_devices", "appium_health_check"}

PcIdEndpoints == {"batch_install", "batch_health_check", "bulk_register"}

\* the endpoints that test device.get("status") != "online"
ChecksOnline == {"run_bot", "run_appium_bot"}

\* the Celery task each endpoint's dispatch_* sends
TaskNameOf(endpoint) ==
    CASE endpoint = "install" -> "install_apk"
      [] endpoint = "run_bot" -> "run_youtube_bot"
      [] endpoint = "run_appium_bot" -> "run_youtube_appium"
      [] endpoint = "bulk_register" -> "scan_devices"
      [] OTHER -> endpoint

\* the devices and hosts a lookup may return
DeviceRows ==
    {NoDeviceRow} \cup
    {[found |-> TRUE, id |-> Min(Devices), pc_number |-> n, status |-> st] :
        n \in {"none"} \cup HostNumbers, st \in DeviceStatuses}

\* a request arrives: the device (or host) it names is looked up
CallDeviceEndpoint(t, endpoint, device) ==
    /\ t = Min(IdleThreads \cup {NumThreads + 1})
    /\ thr' = [thr EXCEPT ![t] =
                  [Idle EXCEPT !.pc = "ep_validate", !.op = "endpoint",
                               !.req = [NoRequest EXCEPT !.endpoint = endpoint,
                                                         !.device = device]]]
    /\ UNCHANGED <<poolVars, ops, tasks, msgs, revoked, dispatching, devices>>

\* scan-devices and appium-health-check: pc_number comes with the request;
\* get_pc_by_number(pc_number.upper()) finds the host or not
CallNumberEndpoint(t, endpoint, pc_number, found) ==
    /\ t = Min(IdleThreads \cup {NumThreads + 1})
    /\ thr' = [thr EXCEPT ![t] =
                  [Idle EXCEPT !.pc = "ep_validate", !.op = "endpoint",
                               !.req = [NoRequest EXCEPT
                                           !.endpoint = endpoint,
                                           !.pc_number = pc_number,
                                           !.pc = IF found /\ ToUpper(pc_number) \in HostNumbers
                                                  THEN ToUpper(pc_number) ELSE "none"]]]
    /\ UNCHANGED <<poolVars, ops, tasks, msgs, revoked, dispatching, devices>>

\* batch endpoints and bulk-register: get_pc(pc_id) returns the host or None
CallPcIdEndpoint(t, endpoint, pc) ==
    /\ t = Min(IdleThreads \cup {NumThreads + 1})
    /\ thr' = [thr EXCEPT ![t] =
                  [Idle EXCEPT !.pc = "ep_validate", !.op = "endpoint",
                               !.req = [NoRequest EXCEPT !.endpoint = endpoint, !.pc = pc]]]
    /\ UNCHANGED <<poolVars, ops, tasks, msgs, revoked, dispatching, devices>>

Responds(req, status_code) == [req EXCEPT !.status_code = status_code]

Routes(req, queue) == [req EXCEPT !.queue = queue]

\* dispatch_scan_devices keeping the host number as it is
QueueOfScan_NoLower(pc_number) == pc_number

\* dispatch_scan_devices, dispatch_batch_health_check: queue = pc_number.lower()
QueueOfScan(pc_number) == ToLower(pc_number)

\* the endpoint's checks, up to the call of dispatch_*: the request with its
\* error status, or with the queue resolved
Validated(req) ==
    IF req.endpoint \in DeviceEndpoints THEN
        IF ~req.device.found THEN Responds(req, 404)
        ELSE IF req.device.pc_number = "none" THEN Responds(req, 400)
        ELSE IF req.endpoint \in ChecksOnline /\ req.device.status # "online"
             THEN Responds(req, 400)
        ELSE Routes(req, ToLower(req.device.pc_number))
    ELSE IF req.endpoint = "scan_devices" THEN
        IF ~MatchesPcPattern(req.pc_number) THEN Responds(req, 422)
        ELSE IF req.pc = "none" THEN Responds(req, 404)
        ELSE Routes(req, QueueOfScan(ToUpper(req.pc_number)))
    ELSE IF req.endpoint = "appium_health_check" THEN
        IF req.pc = "none" THEN Responds(req, 404)
        ELSE Routes(req, ToLower(req.pc_number))
    ELSE IF req.pc = "none" THEN Responds(req, 404)
    ELSE IF req.endpoint = "batch_install" THEN Routes(req, ToLower(req.pc))
    ELSE Routes(req, QueueOfScan(req.pc))

EpValidate(t) ==
    /\ thr[t].pc = "ep_validate"
    /\ thr' = [thr EXCEPT ![t].req = Validated(thr[t].req),
                          ![t].pc = IF Validated(thr[t].req).status_code = 0
                                    THEN "ep_send" ELSE "ep_respond"]
    /\ UNCHANGED <<poolVars, ops, tasks, msgs, revoked, dispatching, devices>>

\* dispatch_*, first half: send_task(name, ..., queue=queue) returns the
\* Celery id, or raises and the request ends with status 500
EpSend(t) ==
    /\ thr[t].pc = "ep_send"
    /\ \/ /\ FreeCeleryId <= SeqMsgs
          /\ msgs' = [msgs EXCEPT ![FreeCeleryId] =
                         [NoMessage EXCEPT !.st = "queued",
                                           !.name = TaskNameOf(thr[t].req.endpoint),
                                           !.dev = thr[t].req.device.id,
                                           !.via = "endpoint",
                                           !.queue = thr[t].req.queue]]
          /\ dispatching' = dispatching \cup {FreeCeleryId}
          /\ thr' = [thr EXCEPT ![t].pc = "ep_create", ![t].msg = FreeCeleryId]
       \/ /\ thr' = [thr EXCEPT ![t].pc = "ep_respond", ![t].req = Responds(thr[t].req, 500)]
          /\ UNCHANGED <<msgs, dispatching>>
    /\ UNCHANGED <<poolVars, ops, tasks, revoked, devices>>

\* dispatch_*, second half: create_task(TaskCreate(celery_task_id, task_name,
\* queue_name, device_id, ...)); the endpoint answers with the row's ids
EpCreate(t) ==
    /\ thr[t].pc = "ep_create"
    /\ \/ /\ FreeTaskId \in TaskIds
          /\ tasks' = [tasks EXCEPT ![FreeTaskId] =
                          [NewRow(thr[t].msg, msgs[thr[t].msg].name) EXCEPT
                              !.queue_name = thr[t].req.queue,
                              !.device_id = thr[t].req.device.id]]
          /\ thr' = [thr EXCEPT ![t].pc = "ep_respond", ![t].req = Responds(thr[t].req, 200)]
       \/ /\ thr' = [thr EXCEPT ![t].pc = "ep_respond", ![t].req = Responds(thr[t].req, 500)]
          /\ UNCHANGED tasks
    /\ dispatching' = dispatching \ {thr[t].msg}
    /\ UNCHANGED <<poolVars, ops, msgs, revoked, devices>>

\* the response leaves the server
EpRespond(t) ==
    /\ thr[t].pc = "ep_respond"
    /\ thr' = [thr EXCEPT ![t] = Idle]
    /\ UNCHANGED <<poolVars, ops, tasks, msgs, revoked, dispatching, devices>>

NextEndpoints ==
    \/ \E e \in DeviceEndpoints, device \in DeviceRows : CallDeviceEndpoint(Min(Threads), e, device)
    \/ \E e \in NumberEndpoints, n \in Spellings, found \in BOOLEAN :
          CallNumberEndpoint(Min(Threads), e, n, found)
    \/ \E e \in PcIdEndpoints, pc \in {"none"} \cup HostNumbers :
          CallPcIdEndpoint(Min(Threads), e, pc)
    \/ EpValidate(Min(Threads))
    \/ EpSend(Min(Threads))
    \/ EpCreate(Min(Threads))
    \/ EpRespond(Min(Threads))

SpecEndpoints == Init /\ [][NextEndpoints]_vars


(***************************************************************************)
(* Part VIII device status: the worker tasks that write the devices table  *)
(*          (tasks/youtube_tasks.py, tasks/device_tasks.py) and the jobs   *)
(*          that run on the handsets.                                      *)
(***************************************************************************)
\* SupabaseClient.update_device_status
update_device_status(device_id, status) == [devices EXCEPT ![device_id].status = status]

\* run_youtube_bot(serial, script_name, params, device_id): the broadcast
\* starts the script on the handset and the device is marked busy; a failed
\* broadcast or an exception leaves the device as it was
run_youtube_bot(d) ==
    /\ \/ devices' = [update_device_status(d, "busy") EXCEPT ![d].script = TRUE]
       \/ UNCHANGED devices
    /\ UNCHANGED <<poolVars, thr, ops, tasks, msgs, revoked, dispatching>>

\* stop_bot(serial, device_id): force-stop ends the script and the device is
\* marked online; when adb raises nothing is written
stop_bot(d) ==
    /\ \/ devices' = [update_device_status(d, "online") EXCEPT ![d].script = FALSE]
       \/ UNCHANGED devices
    /\ UNCHANGED <<poolVars, thr, ops, tasks, msgs, revoked, dispatching>>

\* health_check(device_id, serial): offline when adb does not list the
\* device, online when it answers, error on an exception
health_check(d) ==
    /\ \E status \in {"offline", "online", "error"} :
          devices' = update_device_status(d, status)
    /\ UNCHANGED <<poolVars, thr, ops, tasks, msgs, revoked, dispatching>>

\* the script started by run_youtube_bot comes to its end on the handset;
\* no task runs at that moment
ScriptEnds(d) ==
    /\ devices[d].script
    /\ devices' = [devices EXCEPT ![d].script = FALSE]
    /\ UNCHANGED <<poolVars, thr, ops, tasks, msgs, revoked, dispatching>>

\* run_youtube_appium works on the device from create_session to
\* close_session; it never writes the device's status
AutomationStarts(d) ==
    /\ ~devices[d].automation
    /\ devices' = [devices EXCEPT ![d].automation = TRUE]
    /\ UNCHANGED <<poolVars, thr, ops, tasks, msgs, revoked, dispatching>>

AutomationEnds(d) ==
    /\ devices[d].automation
    /\ devices' = [devices EXCEPT ![d].automation = FALSE]
    /\ UNCHANGED <<poolVars, thr, ops, tasks, msgs, revoked, dispatching>>

NextFleet ==
    \/ \E d \in Devices : run_youtube_bot(d)
    \/ \E d \in Devices : stop_bot(d)
    \/ \E d \in Devices : health_check(d)
    \/ \E d \in Devices : ScriptEnds(d)
    \/ \E d \in Devices : AutomationStarts(d)
    \/ \E d \in Devices : AutomationEnds(d)

SpecFleet == Init /\ [][NextFleet]_vars


(***************************************************************************)
(* Part IX  the watch loop: YouTubeBotOrchestrator._watch_video            *)
(*          (youtube/bot_orchestrator.py) with AdSkipper.try_skip          *)
(*          (youtube/ad_skipper.py), StallMonitor and is_youtube_running   *)
(*          (youtube/error_recovery.py), and the except branch of          *)
(*          execute_job that classifies what the loop raises.  Time is in  *)
(*          seconds.                                                       *)
(***************************************************************************)
AD_CHECK_INTERVAL_SEC == 5

STALL_DETECTION_TIMEOUT_SEC == 120

\* the kinds of element an ad puts on the player: the progress text, a label
\* whose text contains "Ad", the countdown, and the skip button
UiElements == {"ad_progress_text", "ad_text", "ad_countdown", "skip_ad_button"}

Selector(method, value, finds) == [method |-> method, value |-> value, finds |-> finds]

\* constants.py: the strategies in order, each with the element kind it finds
\* (the Korean values are transliterated)
AD_SKIP_BUTTON_SELECTORS ==
    << Selector("id", "skip_ad_button", "skip_ad_button"),
       Selector("text", "Skip ad", "skip_ad_button"),
       Selector("text", "Skip ads", "skip_ad_button"),
       Selector("text", "gwanggo geonneottwigi", "skip_ad_button"),
       Selector("text_contains", "Skip", "skip_ad_button"),
       Selector("text_contains", "geonneottwi", "skip_ad_button"),
       Selector("xpath", "Button[contains(@text, Skip)]", "skip_ad_button"),
       Selector("xpath", "Button[contains(@text, geonneottwi)]", "skip_ad_button"),
       Selector("id", "ad_progress_text", "ad_progress_text") >>

AD_INDICATOR_SELECTORS ==
    << Selector("id", "ad_progress_text", "ad_progress_text"),
       Selector("text_contains", "Ad", "ad_text"),
       Selector("text_contains", "gwanggo", "ad_text"),
       Selector("id", "ad_countdown", "ad_countdown") >>

\* AppiumSelectors.find_with_fallback: the element of the first strategy that
\* finds one, or None
find_with_fallback(strategies, screen) ==
    LET hits == {i \in 1..Len(strategies) : strategies[i].finds \in screen} IN
    IF hits = {} THEN "none" ELSE strategies[Min(hits)].finds

element_exists(strategies, screen) == find_with_fallback(strategies, screen) # "none"

\* AdSkipper.try_skip on the watch state w; tap_ok: actions.tap does not
\* raise.  A tap on the skip button closes the ad.
try_skip(w, tap_ok) ==
    IF ~element_exists(AD_INDICATOR_SELECTORS, w.screen) THEN w
    ELSE LET skip_btn == find_with_fallback(AD_SKIP_BUTTON_SELECTORS, w.screen)
             d == [w EXCEPT !._ad_detected_count = @ + 1] IN
         IF skip_btn # "none" /\ tap_ok
         THEN [d EXCEPT !._skip_count = @ + 1,
                        !.screen = IF skip_btn = "skip_ad_button" THEN {} ELSE @]
         ELSE d

\* AppiumActions.is_app_running: state >= 3
is_app_running(state) == state >= 3

AppStates == 1..4

WatchTargets == {0, 12, 15, MaxWatchSec}

\* _watch_video(target_duration, watch_pct=10, ...)
watch_pct == 10

\* the loop test with <= for <
LoopContinues_Inclusive(elapsed, target_duration) == elapsed <= target_duration

\* line 298: while elapsed < target_duration
LoopContinues(elapsed, target_duration) == elapsed < target_duration

\* lines 306-307: int(min(elapsed / target_duration, 1.0) * 100)
current_pct_int(elapsed, target_duration) ==
    (Min2(elapsed, target_duration) * 100) \div target_duration

\* ads show only in the first MaxAdSec seconds of a watch
ScreensAt(elapsed) == IF elapsed < MaxAdSec THEN SUBSET UiElements ELSE {{}}

\* lines 264-296: _watch_video is entered; create_stall_monitor
CallWatchVideo(t, target_duration, screen) ==
    /\ t = Min(IdleThreads \cup {NumThreads + 1})
    /\ thr' = [thr EXCEPT ![t] =
                  [Idle EXCEPT !.pc = IF LoopContinues(0, target_duration) THEN "wv_skip"
                                      ELSE "wv_returned",
                               !.op = "_watch_video",
                               !.watch = [NoWatch EXCEPT !.target_duration = target_duration,
                                                         !.next_skip_pct = watch_pct,
                                                         !.screen = screen]]]
    /\ UNCHANGED <<poolVars, ops, tasks, msgs, revoked, dispatching, devices>>

\* line 300: self.ad_skipper.try_skip()
WvTrySkip(t) ==
    /\ thr[t].pc = "wv_skip"
    /\ \E tap_ok \in BOOLEAN :
          thr' = [thr EXCEPT ![t].pc = "wv_sleep", ![t].watch = try_skip(thr[t].watch, tap_ok)]
    /\ UNCHANGED <<poolVars, ops, tasks, msgs, revoked, dispatching, devices>>

\* lines 302-335, the rest of one iteration: sleep, elapsed, the progress fed
\* to the stall monitor (min(elapsed / target_duration, 1.0), kept here times
\* target_duration), at most one skip forward (lines 311-315), the progress
\* report (lag: the seconds those driver calls and the state query take,
\* target_duration being positive inside the loop), the crash test, the stall test,
\* and the loop test.  Meanwhile the handset: playback advanced or not, the
\* state of the YouTube package, the elements on screen.
WvPollWith(t, advanced, state, lag, screen) ==
    /\ thr[t].pc = "wv_sleep"
    /\    LET w == thr[t].watch
              elapsed == w.elapsed + AD_CHECK_INTERVAL_SEC
              progress_pct == Min2(elapsed, w.target_duration)
              changed == progress_pct # w._last_progress
              since == (IF changed THEN 0 ELSE w.since_update + AD_CHECK_INTERVAL_SEC) + lag
              skips == /\ current_pct_int(elapsed, Max2(w.target_duration, 1)) >= w.next_skip_pct
                       /\ w.next_skip_pct < 100
              w2 == [w EXCEPT !.elapsed = elapsed,
                              !._last_progress = progress_pct,
                              !.since_update = since,
                              !.screen = screen,
                              !.app_state = state,
                              !.next_skip_pct = IF skips THEN @ + watch_pct ELSE @,
                              !.frozen_for = IF advanced THEN 0
                                             ELSE @ + AD_CHECK_INTERVAL_SEC + lag]
          IN  thr' = [thr EXCEPT
                         ![t].watch = w2,
                         ![t].pc = IF ~is_app_running(state) \/ since > STALL_DETECTION_TIMEOUT_SEC
                                   THEN "wv_raised"
                                   ELSE IF LoopContinues(elapsed, w.target_duration) THEN "wv_skip"
                                   ELSE "wv_returned",
                         ![t].job.raised = IF ~is_app_running(state) THEN Exc(FALSE, {"crash"})
                                           ELSE IF since > STALL_DETECTION_TIMEOUT_SEC
                                           THEN Exc(FALSE, {"stall"})
                                           ELSE @]
    /\ UNCHANGED <<poolVars, ops, tasks, msgs, revoked, dispatching, devices>>

WvPoll(t) ==
    \E advanced \in BOOLEAN, state \in AppStates, lag \in {0, HungCallSec} :
       \E screen \in ScreensAt(thr[t].watch.elapsed + AD_CHECK_INTERVAL_SEC) :
          WvPollWith(t, advanced, state, lag, screen)

\* execute_job lines 184-199: the except branch classifies the error
WvExcept(t) ==
    /\ thr[t].pc = "wv_raised"
    /\ thr' = [thr EXCEPT ![t].pc = "wv_failed",
                          ![t].job.error_code = classify_error(thr[t].job.raised),
                          ![t].job.success = FALSE]
    /\ UNCHANGED <<poolVars, ops, tasks, msgs, revoked, dispatching, devices>>

\* the watch is over: the caller has the duration or the failed JobResult
WvReturn(t) ==
    /\ thr[t].pc \in {"wv_returned", "wv_failed"}
    /\ thr' = [thr EXCEPT ![t] = Idle]
    /\ UNCHANGED <<poolVars, ops, tasks, msgs, revoked, dispatching, devices>>

NextWatch ==
    \/ \E target_duration \in WatchTargets, screen \in ScreensAt(0) :
          CallWatchVideo(Min(Threads), target_duration, screen)
    \/ WvTrySkip(Min(Threads))
    \/ WvPoll(Min(Threads))
    \/ WvExcept(Min(Threads))
    \/ WvReturn(Min(Threads))

SpecWatch == Init /\ [][NextWatch]_vars

\* the watch on a handset that shows no ad and whose player runs (neither
\* enters the loop's tests); the package state and the time the driver calls
\* take stay free
WvPollNoAd(t) ==
    \E state \in AppStates, lag \in {0, HungCallSec} : WvPollWith(t, TRUE, state, lag, {})

NextWatchNoAd ==
    \/ \E target_duration \in WatchTargets : CallWatchVideo(Min(Threads), target_duration, {})
    \/ WvTrySkip(Min(Threads))
    \/ WvPollNoAd(Min(Threads))
    \/ WvExcept(Min(Threads))
    \/ WvReturn(Min(Threads))

\* the thread in the loop keeps running: sleep returns and every driver call
\* of an iteration returns or times out
SpecWatchFair ==
    /\ Init /\ [][NextWatchNoAd]_vars
    /\ WF_vars(WvTrySkip(Min(Threads)))
    /\ WF_vars(WvPollNoAd(Min(Threads)))


(***************************************************************************)
(* Part X   evidence capture: EvidenceCapture (appium_core/evidence.py),   *)
(*          one object used by one thread: start_job, capture_screenshot,  *)
(*          finish_job in any order.  The clock counts milliseconds and    *)
(*          does not go back.                                              *)
(***************************************************************************)
MAX_SCREENSHOTS_PER_JOB == 20

\* f"{n:02d}": the decimal digits, at least two
Fmt02(n) ==
    IF n < 100 THEN << n \div 10, n % 10 >>
    ELSE << n \div 100, (n \div 10) % 10, n % 10 >>

\* str < str: the first differing character decides, a proper prefix is less
LexLess(a, b) ==
    \/ \E i \in 1..Min2(Len(a), Len(b)) :
          /\ \A j \in 1..(i - 1) : a[j] = b[j]
          /\ a[i] < b[i]
    \/ /\ Len(a) < Len(b)
       /\ \A j \in 1..Len(a) : a[j] = b[j]

\* _generate_filename with the sequence number never advanced
_generate_filename_NoSequence(e, ts) ==
    [e EXCEPT !._sequence = 0, !._last_timestamp = ts,
              !.filename = << ts >> \o Fmt02(0) \o << 10 >>]

\* EvidenceCapture._generate_filename at clock ts: the name up to the job
\* id, as the timestamp (fixed width, one character here), the digits of the
\* sequence number, and the underscore (10: above every digit)
_generate_filename(e, ts) ==
    LET seq == IF ts = e._last_timestamp THEN e._sequence + 1 ELSE 0 IN
    [e EXCEPT !._sequence = seq, !._last_timestamp = ts,
              !.filename = << ts >> \o Fmt02(seq) \o << 10 >>]

CaptureOutcomes == {"ok", "screenshot_raises", "write_raises"}

\* capture_screenshot with the limit tested by > instead of >=
capture_screenshot_LateLimit(e, ts, outcome) ==
    IF ~e._current_job THEN [e EXCEPT !.ret = "None", !.wrote = FALSE]
    ELSE IF e.files > MAX_SCREENSHOTS_PER_JOB
    THEN [e EXCEPT !.ret = "None", !.wrote = FALSE, !.calls = @ + 1, !.now = ts]
    ELSE LET g == [_generate_filename(e, ts) EXCEPT !.calls = @ + 1, !.now = ts] IN
         IF outcome = "ok"
         THEN [g EXCEPT !.files = @ + 1, !.wrote = TRUE, !.ret = "file_info"]
         ELSE IF outcome = "write_raises"
         THEN [g EXCEPT !.wrote = TRUE, !.ret = "None"]
         ELSE [g EXCEPT !.wrote = FALSE, !.ret = "None"]

\* EvidenceCapture.capture_screenshot at clock ts
capture_screenshot(e, ts, outcome) ==
    IF ~e._current_job THEN [e EXCEPT !.ret = "None", !.wrote = FALSE]
    ELSE IF e.files >= MAX_SCREENSHOTS_PER_JOB
    THEN [e EXCEPT !.ret = "None", !.wrote = FALSE, !.calls = @ + 1, !.now = ts]
    ELSE LET g == [_generate_filename(e, ts) EXCEPT !.calls = @ + 1, !.now = ts] IN
         IF outcome = "ok"
         THEN [g EXCEPT !.files = @ + 1, !.wrote = TRUE, !.ret = "file_info"]
         ELSE IF outcome = "write_raises"
         THEN [g EXCEPT !.wrote = TRUE, !.ret = "None"]
         ELSE [g EXCEPT !.wrote = FALSE, !.ret = "None"]

\* the clock when a call reads it
ClockAt(e) == {ts \in e.now..(e.now + 1) : ts <= MaxMs}

\* EvidenceCapture(driver)
EvNew(t) ==
    /\ t = Min(IdleThreads \cup {NumThreads + 1})
    /\ thr' = [thr EXCEPT ![t] = [Idle EXCEPT !.pc = "ev", !.op = "evidence"]]
    /\ UNCHANGED <<poolVars, ops, tasks, msgs, revoked, dispatching, devices>>

\* start_job: os.makedirs may raise; else a fresh _current_job, _sequence = 0
EvStartJob(t) ==
    /\ thr[t].pc = "ev"
    /\ \/ thr' = [thr EXCEPT ![t].ev = [@ EXCEPT !._current_job = TRUE, !.files = 0,
                                                 !._sequence = 0, !.calls = 0, !.wrote = FALSE,
                                                 !.filename = <<>>, !.ret = "job_dir"],
                             ![t].exc = "none"]
       \/ thr' = [thr EXCEPT ![t].exc = "OSError"]
    /\ UNCHANGED <<poolVars, ops, tasks, msgs, revoked, dispatching, devices>>

EvCapture(t) ==
    /\ thr[t].pc = "ev"
    /\ thr[t].ev.calls < MaxCaptures
    /\ \E ts \in ClockAt(thr[t].ev), outcome \in CaptureOutcomes :
          thr' = [thr EXCEPT ![t].ev = capture_screenshot(@, ts, outcome), ![t].exc = "none"]
    /\ UNCHANGED <<poolVars, ops, tasks, msgs, revoked, dispatching, devices>>

\* finish_job: the result is built and _current_job is cleared
EvFinishJob(t) ==
    /\ thr[t].pc = "ev"
    /\ thr' = [thr EXCEPT ![t].ev = [@ EXCEPT !._current_job = FALSE, !.wrote = FALSE, !.ret = "result"],
                          ![t].exc = "none"]
    /\ UNCHANGED <<poolVars, ops, tasks, msgs, revoked, dispatching, devices>>

NextEvidence ==
    \/ EvNew(Min(Threads))
    \/ EvStartJob(Min(Threads))
    \/ EvCapture(Min(Threads))
    \/ EvFinishJob(Min(Threads))

SpecEvidence == Init /\ [][NextEvidence]_vars


(***************************************************************************)
(* Part XI  batch_install (tasks/install_tasks.py): the target list is     *)
(*          cut into groups of batch_size install_apk tasks; each group is *)
(*          sent and its results are collected with get(timeout=300).      *)
(*          The installs run on the workers and return on their own.       *)
(***************************************************************************)
batch_size == 5

\* lines 180-205: the result dict, the target serials, result["total"]; the
\* look-up of the targets may raise, and then there is no target list and
\* total stays 0
CallBatchInstall(t, n) ==
    /\ t = Min(IdleThreads \cup {NumThreads + 1})
    /\ \/ thr' = [thr EXCEPT ![t] =
                     [Idle EXCEPT !.pc = "bi_loop", !.op = "batch_install",
                                  !.batch = [NoBatch EXCEPT !.targets = n, !.total = n]]]
       \/ thr' = [thr EXCEPT ![t] =
                     [Idle EXCEPT !.pc = "bi_returned", !.op = "batch_install",
                                  !.batch = [NoBatch EXCEPT !.error = "Exception"]]]
    /\ UNCHANGED <<poolVars, ops, tasks, msgs, revoked, dispatching, devices>>

\* lines 209-218: the loop test, batch = target_serials[i:i + batch_size],
\* group(...).apply_async(); after the last wave lines 231-232
BiSendWave(t) ==
    /\ thr[t].pc = "bi_loop"
    /\ LET b == thr[t].batch
           size == Min2(batch_size, b.targets - b.i) IN
       IF b.i < b.targets
       THEN thr' = [thr EXCEPT ![t].pc = "bi_get",
                               ![t].batch = [b EXCEPT !.wave = size,
                                                      !.running = @ + size,
                                                      !.wave_success = 0,
                                                      !.waves = Append(@, size)]]
       ELSE thr' = [thr EXCEPT ![t].pc = "bi_returned"]
    /\ UNCHANGED <<poolVars, ops, tasks, msgs, revoked, dispatching, devices>>

\* a worker finishes one install_apk of the wave (after its retries) and
\* stores the result dict
InstallReturns(t, success) ==
    /\ thr[t].op = "batch_install"
    /\ thr[t].batch.running > 0
    /\ thr' = [thr EXCEPT ![t].batch.running = @ - 1,
                          ![t].batch.wave_success = IF success THEN @ + 1 ELSE @]
    /\ UNCHANGED <<poolVars, ops, tasks, msgs, revoked, dispatching, devices>>

\* lines 218-229: get() returns once every install of the wave has
\* returned; the results are counted; sleep(2) before the next wave
BiGet(t) ==
    /\ thr[t].pc = "bi_get"
    /\ thr[t].batch.running = 0
    /\ thr' = [thr EXCEPT ![t].pc = "bi_loop",
                          ![t].batch = [@ EXCEPT !.success = @ + thr[t].batch.wave_success,
                                                 !.failed = @ + thr[t].batch.wave
                                                              - thr[t].batch.wave_success,
                                                 !.i = @ + batch_size]]
    /\ UNCHANGED <<poolVars, ops, tasks, msgs, revoked, dispatching, devices>>

\* lines 218, 234-237: get(timeout=300) raises while installs of the wave are
\* still running or retrying (TimeoutError), or raises at once (a get inside
\* a task, the result backend); the except branch returns the result so far
BiGetRaises(t) ==
    /\ thr[t].pc = "bi_get"
    /\ \E e \in {"TimeoutError", "RuntimeError"} :
          /\ e = "TimeoutError" => thr[t].batch.running > 0
          /\ thr' = [thr EXCEPT ![t].pc = "bi_returned", ![t].batch.error = e]
    /\ UNCHANGED <<poolVars, ops, tasks, msgs, revoked, dispatching, devices>>

\* the caller has the result and the installs left behind have ended
BiReturn(t) ==
    /\ thr[t].pc = "bi_returned"
    /\ thr[t].batch.running = 0
    /\ thr' = [thr EXCEPT ![t] = Idle]
    /\ UNCHANGED <<poolVars, ops, tasks, msgs, revoked, dispatching, devices>>

NextBatch ==
    \/ \E n \in 0..MaxBatch : CallBatchInstall(Min(Threads), n)
    \/ BiSendWave(Min(Threads))
    \/ \E success \in BOOLEAN : InstallReturns(Min(Threads), success)
    \/ BiGet(Min(Threads))
    \/ BiGetRaises(Min(Threads))
    \/ BiReturn(Min(Threads))

SpecBatch == Init /\ [][NextBatch]_vars


\* ------------------------------------------------------- session pool properties
LiveDriversOf(d) == {k \in DriverIds : drivers[k].udid = d /\ drivers[k].st = "live"}

SessionDevices == {d \in Devices : _sessions[d] # NoDriver}

\* C1: no two distinct devices that hold a session in the pool were given
\* the same systemPort (the port their driver was created with).
C1_InjectivePorts ==
    \A d \in SessionDevices : \A e \in SessionDevices :
        d # e => drivers[_sessions[d]].systemPort # drivers[_sessions[e]].systemPort

\* C2: the pool never holds more than max_sessions sessions; a create_session
\* beyond the cap fails with the pool-exhausted error.
C2_AtMostMaxSessions == active_session_count <= max_sessions

\* C3: for every device at most one live driver created by the pool exists.
C3_OneLiveDriverPerDevice == \A d \in Devices : Cardinality(LiveDriversOf(d)) <= 1

\* C4: the allocated ports and the free ports partition
\* [system_port_start, system_port_end], and at most max_sessions ports are
\* allocated.
C4_PortPartition ==
    /\ UsedPortSet \cap _port_pool = {}
    /\ UsedPortSet \cup _port_pool = Ports
    /\ Cardinality({d \in Devices : _used_ports[d] # NoPort}) <= max_sessions

\* the part of C4 that the lock does protect
PortsPartitioned ==
    /\ UsedPortSet \cap _port_pool = {}
    /\ UsedPortSet \cup _port_pool = Ports

\* ------------------------------------------------------ dispatch plane properties
\* C5: once a task row's status is terminal (success, failed, cancelled), no
\* later write sets it to a non-terminal status (pending, running, retrying).
C5_MonotoneStatus ==
    [][\A r \in TaskIds :
          tasks[r].status \in Terminal => tasks'[r].status \notin NonTerminal]_vars

\* C7: in every task row started_at is null exactly when status is pending,
\* and completed_at is null exactly when status is pending, running or retrying.
C7_TimestampsMatchStatus ==
    \A r \in ExistingRows :
        /\ (~tasks[r].started_at) <=> (tasks[r].status = "pending")
        /\ (~tasks[r].completed_at) <=> (tasks[r].status \in NonTerminal)

\* C8: after cancel_task the broker revoke has been issued and the row is
\* cancelled with completed_at set; while the task is still on a worker no
\* write changes the row to another status.
C8_CancelledStays ==
    [][\A r \in TaskIds :
          (/\ tasks[r].status = "cancelled"
           /\ msgs[tasks[r].celery_task_id].st = "running")
          => (/\ tasks[r].celery_task_id \in revoked
              /\ tasks[r].completed_at
              /\ tasks'[r].status = "cancelled")]_vars

\* ------------------------------------------------------ automation job properties
RowsOf(c) == {r \in ExistingRows : tasks[r].celery_task_id = c}

\* C6: when the worker execution of a task dispatched by the API has finished,
\* the row created at dispatch has left pending for success or failed, with
\* its result or error recorded.
C6_TerminalWriteBack ==
    \A c \in CeleryIds :
        (msgs[c].via = "api" /\ msgs[c].st \in {"finished", "failed"})
        => \A r \in RowsOf(c) :
               /\ tasks[r].status \in {"success", "failed"}
               /\ (tasks[r].result # "none" \/ tasks[r].error # "none")

\* C9: a job that hits the retryable error E2004 is retried in-process with
\* the recovery decision of handle_error (delays 5, 10, 20 s); the task ends
\* failed with E2004 only once MAX_RETRY retries were made, i.e. when
\* handle_error says fail.
C9_FailedOnlyAfterMaxRetry ==
    \A c \in CeleryIds :
        (msgs[c].st = "finished" /\ ~msgs[c].success /\ msgs[c].error_code = "E2004")
        => /\ handle_error("E2004", msgs[c].job_retries).action = "fail"
           /\ msgs[c].job_retries = MAX_RETRY_COUNT

\* C10: when an attempt of run_youtube_appium that obtained a session ends
\* (its finally block has closed the session), the device holds no session
\* in the pool and no port.
AttemptClosing(t) ==
    /\ thr[t].pc = "cl_release"
    /\ thr[t].ret \in {"yt_return", "yt_retry", "yt_raise"}

C10_SessionClosedAtEnd ==
    [][\A t \in Threads :
          (AttemptClosing(t) /\ thr'[t].pc = thr[t].ret)
          => (/\ _sessions'[thr[t].dev] = NoDriver
              /\ _used_ports'[thr[t].dev] = NoPort
              /\ UsedPortSet' \cap _port_pool' = {})]_vars

\* C11: a run_youtube_appium task is re-queued only when a WebDriverException
\* escaped the attempt and retries are left, each time with countdown 30 s
\* and one more retry counted; it is never retried more than max_retries
\* (= 2) times, so it runs at most 3 attempts; any other end of an attempt
\* finishes the task, and an escaped exception ends it failed.
AttemptEnds(c) ==
    /\ msgs[c].name = "run_youtube_appium"
    /\ msgs[c].st = "running"
    /\ msgs'[c] # msgs[c]

C11_RetryBounded ==
    /\ [](\A c \in CeleryIds : msgs[c].retries <= appium_max_retries)
    /\ [][\A c \in CeleryIds : AttemptEnds(c) =>
            \E t \in Threads :
               /\ thr[t].msg = c
               /\ IF thr[t].exc = "WebDriverException" /\ msgs[c].retries < appium_max_retries
                  THEN /\ msgs'[c].st = "queued"
                       /\ msgs'[c].retries = msgs[c].retries + 1
                       /\ msgs'[c].countdown = 30
                  ELSE /\ msgs'[c].retries = msgs[c].retries
                       /\ msgs'[c].st = IF thr[t].exc = "none" THEN "finished" ELSE "failed"]_vars

\* the third attempt of a task ends with a WebDriverException: no retry is left
C11_Witness ==
    \E t \in Threads :
        /\ thr[t].pc = "yt_raise"
        /\ thr[t].exc = "WebDriverException"
        /\ msgs[thr[t].msg].retries = appium_max_retries

\* ------------------------------------------------------------ job properties
\* C12: execute_job never raises: whichever step fails, it returns a
\* JobResult (success, or failure with a classified error code) after
\* finish_job has run.
C12_ExecuteJobNeverRaises ==
    \A t \in Threads :
        thr[t].op = "execute_job" =>
            /\ thr[t].pc # "ej_raised"
            /\ thr[t].pc = "ej_returned" =>
                  /\ thr[t].job.finished
                  /\ thr[t].job.success \/ thr[t].job.error_code \in ErrorCodes

\* C13: a job with target_url set and prob_like = 100 whose launch,
\* navigation and watch succeeded and whose like button is found returns
\* success = true and did_like = true, after exactly one like tap.
C13_LikeJobSucceeds ==
    \A t \in Threads :
        (/\ thr[t].pc = "ej_returned"
         /\ thr[t].job.target_url
         /\ thr[t].job.prob_like = 100
         /\ thr[t].job.interacting
         /\ thr[t].job.like_btn = "present")
        => (/\ thr[t].job.success
            /\ thr[t].job.did_like
            /\ thr[t].job.like_taps = 1)

\* C14: the interactions that are drawn run in the fixed order like,
\* subscribe, playlist, comment.
InteractionRank(a) ==
    CASE a = "like" -> 1 [] a = "subscribe" -> 2 [] a = "playlist" -> 3 [] OTHER -> 4

C14_InteractionOrder ==
    \A t \in Threads :
        LET log == thr[t].job.log IN
        \A i \in DOMAIN log : \A k \in DOMAIN log :
            i < k => InteractionRank(log[i]) < InteractionRank(log[k])

\* ------------------------------------------------------- recovery properties
Decided(t) == thr[t].op = "handle_error" /\ thr[t].pc = "he_done"

\* C15: for every error code and retry count k, handle_error returns fail
\* whenever the code is non-retryable (E2001, E2002, E3002, E3004) or
\* k >= MAX_RETRY (= 3), and then leaves the retry count unchanged with
\* delay 0.
C15_FailWhenExhausted ==
    \A t \in Threads :
        (/\ Decided(t)
         /\ \/ thr[t].error_code \in {"E2001", "E2002", "E3002", "E3004"}
            \/ thr[t].retry_count >= 3)
        => (/\ thr[t].recovery.action = "fail"
            /\ thr[t].recovery.new_retry_count = thr[t].retry_count
            /\ thr[t].recovery.delay = 0)

\* a retryable code at the retry limit
C15_Witness ==
    \E t \in Threads :
        /\ Decided(t)
        /\ thr[t].error_code = "E2004"
        /\ thr[t].retry_count = 3
        /\ thr[t].recovery.action = "fail"

\* C16: each non-retryable domain error (E2001, E2002, E2003, E3002, E3004)
\* fails fast: handle_error returns fail already at retry_count 0 and the
\* error code is kept.
C16_DomainErrorsFailFast ==
    \A t \in Threads :
        (/\ Decided(t)
         /\ thr[t].error_code \in {"E2001", "E2002", "E2003", "E3002", "E3004"}
         /\ thr[t].retry_count = 0)
        => (/\ thr[t].recovery.action = "fail"
            /\ thr[t].recovery.error_code = thr[t].error_code)

\* C17: for k < MAX_RETRY and a code outside the non-retryable set:
\* E1001 -> wait_network, E3001 -> restart_app, E3003 -> unlock_screen,
\* E4002 and E4003 -> fail, any other code -> retry with delay 5, 10, 20 s
\* for k = 0, 1, 2; every action other than fail carries k + 1.
C17_ActionTable ==
    \A t \in Threads :
        (/\ Decided(t)
         /\ thr[t].retry_count < 3
         /\ thr[t].error_code \notin {"E2001", "E2002", "E3002", "E3004"})
        => LET r == thr[t].recovery
               code == thr[t].error_code
               k == thr[t].retry_count
           IN /\ r.action = CASE code = "E1001" -> "wait_network"
                              [] code = "E3001" -> "restart_app"
                              [] code = "E3003" -> "unlock_screen"
                              [] code \in {"E4002", "E4003"} -> "fail"
                              [] OTHER -> "retry"
              /\ r.action = "retry" => r.delay = <<5, 10, 20>>[k + 1]
              /\ r.action # "fail" => r.new_retry_count = k + 1

\* a plain retry at k = 2 with its 20 s delay
C17_Witness ==
    \E t \in Threads :
        /\ Decided(t)
        /\ thr[t].error_code = "E1002"
        /\ thr[t].retry_count = 2
        /\ thr[t].recovery.action = "retry"
        /\ thr[t].recovery.delay = 20

\* ------------------------------------------------------- task row properties
\* the status changes a worker may make to a row
WorkerTransitions ==
    {<<"pending", "running">>, <<"running", "retrying">>, <<"retrying", "running">>}
    \cup {<<"running", s>> : s \in Terminal}

\* C18: the statuses the workers write for a task follow
\* pending -> running -> (retrying -> running)* -> terminal: every change a
\* worker step makes to a row's status is one of these transitions, so no
\* terminal status comes before running and nothing follows a terminal one.
C18_WorkerStatusOrder ==
    [][\A r \in TaskIds :
          (thr' # thr /\ tasks'[r].status # tasks[r].status)
          => <<tasks[r].status, tasks'[r].status>> \in WorkerTransitions]_vars

ProbesSession(t) ==
    /\ thr[t].op = "create_session"
    /\ thr[t].pc = "cs_probe"
    /\ thr'[t].pc # "cs_probe"

\* C21: create_session for a device that has a session returns that same
\* driver, with the pool untouched, when the session is live; a stale
\* session (dead driver) is not returned but purged, to be replaced by a
\* fresh one.
C21_ReuseOrRecreate ==
    [][\A t \in Threads :
          ProbesSession(t)
          => IF drivers[thr[t].driver].st = "live"
             THEN /\ thr'[t].pc = "done"
                  /\ thr'[t].out = "reused"
                  /\ thr'[t].driver = _sessions[thr[t].dev]
                  /\ poolVars' = poolVars
             ELSE /\ thr'[t].pc = "cl_pop"
                  /\ thr'[t].ret = "cs_max"]_vars

\* driver creation has failed and create_session takes its except branch in
\* this step
CreateFails(t) ==
    /\ thr[t].op = "create_session"
    /\ thr[t].pc = "cs_release"
    /\ thr'[t].pc # "cs_release"

\* C22: when driver creation fails inside create_session, the port
\* allocated for the call is back in the free set, the device has no port
\* and no session in the pool, and the error reaches the caller.
C22_FailedCreateRestoresPool ==
    [][\A t \in Threads :
          CreateFails(t)
          => /\ thr[t].port \in _port_pool'
             /\ _used_ports'[thr[t].dev] = NoPort
             /\ _sessions'[thr[t].dev] = NoDriver
             /\ thr'[t].pc = "done"
             /\ thr'[t].out = "create_failed"]_vars
\* close_session(device) returns to its caller in this step
CloseReturns(t) ==
    /\ thr[t].op = "close_session"
    /\ thr[t].pc = "cl_release"
    /\ thr'[t].pc = "done"

\* C23: when close_session(device) returns, the device has no session in
\* the pool and its port is free, also when quitting the driver raised (the
\* driver was dead); for a device that had no session and no port when the
\* call looked, the pool is as it was, and the call does not raise.
C23_CloseAlwaysReleases ==
    [][\A t \in Threads :
          CloseReturns(t)
          => /\ _sessions'[thr[t].dev] = NoDriver
             /\ _used_ports'[thr[t].dev] = NoPort
             /\ _used_ports[thr[t].dev] # NoPort => _used_ports[thr[t].dev] \in _port_pool'
             /\ (thr[t].driver = NoDriver /\ _used_ports[thr[t].dev] = NoPort)
                => poolVars' = poolVars
             /\ thr'[t].out = "closed"]_vars
\* create_session records its new driver in the device -> driver map in
\* this step
Inserts(t) ==
    /\ thr[t].pc = "cs_insert"
    /\ thr'[t].pc # "cs_insert"

\* C24: pool mutations are serialized by the pool's mutex: no other thread
\* mutates the pool between a thread's check and the mutation that rests on
\* it, so when create_session records a driver, what it checked (the device
\* has no session, fewer than max_sessions sessions exist) is still true and
\* the port it allocated is still the device's.
C24_CheckThenMutateAtomic ==
    [][\A t \in Threads :
          Inserts(t)
          => /\ _sessions[thr[t].dev] = NoDriver
             /\ active_session_count < max_sessions
             /\ _used_ports[thr[t].dev] = thr[t].port]_vars
\* ------------------------------------------------------- endpoint properties
\* the request names a device that is missing, unassigned or not online
BadDevice(req) ==
    /\ req.endpoint \in DeviceEndpoints
    /\ \/ ~req.device.found
       \/ req.device.pc_number = "none"
       \/ req.device.status # "online"

\* C25: no dispatch endpoint sends a task or inserts a row for a device that
\* does not exist, is not assigned to a host or is not online: such a
\* request never reaches the send and is answered with 404 or 400.
C25_BadDeviceNeverDispatched ==
    \A t \in Threads :
        (thr[t].op = "endpoint" /\ BadDevice(thr[t].req))
        => /\ thr[t].pc \notin {"ep_send", "ep_create"}
           /\ thr[t].pc = "ep_respond" => thr[t].req.status_code \in {400, 404}

\* the host a request is for: the device's host, or the host looked up
TargetHost(req) == IF req.endpoint \in DeviceEndpoints THEN req.device.pc_number ELSE req.pc

\* the queue of a host: its number in lower case
LowerCased(host) == CASE host = "PC01" -> "pc01" [] host = "PC02" -> "pc02" [] OTHER -> "?"

\* C26: every task a dispatch endpoint sends goes to the queue named by the
\* lower-cased host number of the target host, and its row records that
\* queue, however the request spells the host number.
C26_QueueIsLowerHostNumber ==
    \A t \in Threads :
        /\ (thr[t].op = "endpoint" /\ thr[t].pc = "ep_create")
           => msgs[thr[t].msg].queue = LowerCased(TargetHost(thr[t].req))
        /\ (thr[t].op = "endpoint" /\ thr[t].pc = "ep_respond" /\ thr[t].req.status_code = 200)
           => \E r \in ExistingRows :
                 /\ tasks[r].celery_task_id = thr[t].msg
                 /\ tasks[r].queue_name = LowerCased(TargetHost(thr[t].req))
                 /\ msgs[thr[t].msg].queue = tasks[r].queue_name

\* a request that spells the host number in mixed case has been dispatched
C26_Witness ==
    \E t \in Threads :
        /\ thr[t].op = "endpoint"
        /\ thr[t].pc = "ep_respond"
        /\ thr[t].req.status_code = 200
        /\ thr[t].req.pc_number = "Pc02"
        /\ msgs[thr[t].msg].queue = "pc02"

\* ------------------------------------------------------- fleet properties
\* C27: a device's status is busy only while it has an active job: a device
\* on which neither a bot script nor an automation job runs is never busy.
C27_BusyOnlyWithJob ==
    \A d \in Devices :
        devices[d].status = "busy" => (devices[d].script \/ devices[d].automation)

\* ------------------------------------------------------- watch loop properties
Polls(t) == thr[t].pc = "wv_sleep" /\ thr'[t].pc # "wv_sleep"

\* C28: a poll of the watch loop that finds playback without progress for
\* more than 120 s, YouTube still in the foreground, aborts the watch with a
\* stall error, and a job that failed on a stall error has error_code E2004.
C28_StallAborts ==
    /\ [][\A t \in Threads :
             (/\ Polls(t)
              /\ thr'[t].watch.frozen_for > STALL_DETECTION_TIMEOUT_SEC
              /\ thr'[t].watch.app_state = 4)
             => thr'[t].pc = "wv_raised" /\ "stall" \in thr'[t].job.raised.words]_vars
    /\ [](\A t \in Threads :
             (thr[t].pc = "wv_failed" /\ "stall" \in thr[t].job.raised.words)
             => thr[t].job.error_code = "E2004" /\ ~thr[t].job.success)

\* C29: a poll of the watch loop that finds the YouTube package not in the
\* foreground aborts the watch with a crash error, and a job that failed on a
\* crash error returns success = false with error_code E3001.
C29_NotForegroundAborts ==
    /\ [][\A t \in Threads :
             (Polls(t) /\ thr'[t].watch.app_state # 4)
             => thr'[t].pc = "wv_raised" /\ "crash" \in thr'[t].job.raised.words]_vars
    /\ [](\A t \in Threads :
             (thr[t].pc = "wv_failed" /\ "crash" \in thr[t].job.raised.words)
             => thr[t].job.error_code = "E3001" /\ ~thr[t].job.success)

AdIndicators == {"ad_progress_text", "ad_text", "ad_countdown"}

\* C30: a try_skip call adds one to ads_detected exactly when an ad indicator
\* is on screen, and adds one to ads_skipped only when the skip button is on
\* screen too; otherwise the counters stay.
C30_SkipCounters ==
    [][\A t \in Threads :
          (thr[t].pc = "wv_skip" /\ thr'[t].pc = "wv_sleep")
          => LET w == thr[t].watch
                 v == thr'[t].watch
                 ad == w.screen \cap AdIndicators # {}
             IN  /\ v._ad_detected_count = w._ad_detected_count + (IF ad THEN 1 ELSE 0)
                 /\ v._skip_count \in {w._skip_count, w._skip_count + 1}
                 /\ v._skip_count = w._skip_count + 1
                    => ad /\ "skip_ad_button" \in w.screen]_vars

\* ------------------------------------------------------- evidence properties
Captures(t) ==
    /\ thr[t].pc = "ev"
    /\ thr[t].ev._current_job
    /\ thr'[t].ev.calls = thr[t].ev.calls + 1

C32_FilenamesIncrease ==
    [][\A t \in Threads :
          (Captures(t) /\ thr[t].ev.filename # <<>> /\ thr[t].ev.files < 20)
          => LexLess(thr[t].ev.filename, thr'[t].ev.filename)]_vars

\* a job started in the millisecond of an earlier job's capture has taken two
\* captures in that same millisecond
C32_Witness ==
    \E t \in Threads :
        /\ thr[t].ev._current_job
        /\ thr[t].ev.calls = 2
        /\ thr[t].ev._sequence = 2
        /\ thr[t].ev._last_timestamp = thr[t].ev.now

\* ------------------------------------------------------- batch install properties
\* C33: at most 5 installs of a batch are in flight, a wave is sent only when
\* every install of the previous wave has returned, and a batch_install that
\* has completed reports total = n and success + failed = total.
C33_WavesOfFive ==
    /\ [](\A t \in Threads : thr[t].batch.running <= 5)
    /\ [][\A t \in Threads :
             (thr[t].pc = "bi_loop" /\ thr'[t].pc = "bi_get") => thr[t].batch.running = 0]_vars
    /\ [](\A t \in Threads :
             thr[t].pc = "bi_returned"
             => /\ thr[t].batch.total = thr[t].batch.targets
                /\ thr[t].batch.success + thr[t].batch.failed = thr[t].batch.total)

\* ------------------------------------------------------- pool exhaustion properties
\* max_sessions sessions were created and have been closed, and every other
\* request failed because the pool was full
ExhaustionOver ==
    /\ \A t \in Threads : thr[t].pc \in {"xh_closed", "xh_failed"}
    /\ Cardinality({t \in Threads : thr[t].pc = "xh_closed"}) = max_sessions
    /\ \E t \in Threads : thr[t].pc = "xh_failed"
    /\ \A t \in Threads : thr[t].pc = "xh_failed" => thr[t].out = "max_sessions"

\* C34 as stated: after the sessions of a full pool were created and closed,
\* a further request having failed with pool-exhausted, available_ports is
\* P_HI - P_LO - 1.
C34_AvailablePortsAsStated ==
    ExhaustionOver => get_metrics.available_ports = system_port_end - system_port_start - 1

\* C34 amended: after the sessions of a full pool were created and closed, a
\* further request having failed with pool-exhausted, no port is leaked:
\* available_ports is the size of the port range, P_HI - P_LO + 1.
C34_NoPortLeaked ==
    ExhaustionOver => get_metrics.available_ports = system_port_end - system_port_start + 1

\* the scenario has run to its end
C34_Witness ==
    /\ ExhaustionOver
    /\ \A d \in Devices : _sessions[d] = NoDriver

\* ------------------------------------------------------- watch duration properties
InWatchLoop(t) == thr[t].pc \in {"wv_skip", "wv_sleep"}

\* C35: a watch that is in its loop leaves it, by returning or by raising; a
\* watch that has returned reports an elapsed time that is a multiple of 5
\* with target <= elapsed < target + 5.
C35_WatchTerminates ==
    /\ \A t \in Threads : InWatchLoop(t) ~> thr[t].pc \in {"wv_returned", "wv_raised"}
    /\ [](\A t \in Threads :
             thr[t].pc = "wv_returned"
             => /\ thr[t].watch.elapsed % 5 = 0
                /\ thr[t].watch.target_duration <= thr[t].watch.elapsed
                /\ thr[t].watch.elapsed < thr[t].watch.target_duration + 5)

\* a 15 s watch has returned after exactly 15 s
C35_Witness ==
    \E t \in Threads :
        /\ thr[t].pc = "wv_returned"
        /\ thr[t].watch.target_duration = 15
        /\ thr[t].watch.elapsed = 15

SkipThresholds == {10, 20, 30, 40, 50, 60, 70, 80, 90}

\* C36: after every poll each threshold of 10 %, ..., 90 % that the progress
\* has reached has had its forward skip, and a watch that runs to completion
\* has made the nine skips and none for 100 %.
C36_SkipAtEveryTenth ==
    /\ [][\A t \in Threads :
             Polls(t)
             => \A th \in SkipThresholds :
                   current_pct_int(thr'[t].watch.elapsed, thr'[t].watch.target_duration) >= th
                   => thr'[t].watch.next_skip_pct > th]_vars
    /\ [](\A t \in Threads :
             (thr[t].pc = "wv_returned" /\ thr[t].watch.target_duration > 0)
             => thr[t].watch.next_skip_pct = 100)

\* ------------------------------------------------------- stale cleanup properties
\* C37: cleanup_stale_sessions removes only sessions whose liveness probe
\* failed: the session it takes out of the pool is not a live one, so every
\* live session and its port stay as they are.
C37_CleanupRemovesOnlyStale ==
    [][\A t \in Threads :
          (/\ thr[t].pc = "cl_pop"
           /\ thr[t].ret = "st_loop"
           /\ thr'[t].pc = "cl_quit")
          => drivers[_sessions[thr[t].dev]].st # "live"]_vars

\* ------------------------------------------------ properties: shared session
\* the jobs that are running on a driver they got from create_session
JobsRunning == {t \in Threads : thr[t].pc = "yt_job" /\ thr[t].driver # NoDriver}

\* C38: a device's session is never closed while a job that obtained it from
\* create_session is still running: a step of another task's close_session
\* (driver.quit, _release_port) on the same device neither quits the driver
\* of the running job nor takes the device's port away
C38_SessionOpenWhileJobRuns ==
    [][\A t \in JobsRunning : \A u \in Threads \ {t} :
          (/\ thr[u].pc \in {"cl_quit", "cl_release"}
           /\ thr[u].dev = thr[t].dev
           /\ thr'[u] # thr[u])
          => /\ drivers'[thr[t].driver].st = drivers[thr[t].driver].st
             /\ _used_ports'[thr[t].dev] = _used_ports[thr[t].dev]]_vars

\* ------------------------------------------------- properties: orphaned sends
\* the tasks a dispatch operation has sent to the broker and is done with
SentByDispatch ==
    {c \in CeleryIds : /\ msgs[c].via = "api"
                       /\ msgs[c].st \notin {"none", "unsent"}
                       /\ c \notin dispatching}

\* C39: every task that a dispatch operation has sent to the broker has a
\* task row carrying its broker id, also when create_task failed after the
\* send had succeeded
C39_SentTaskHasRow ==
    \A c \in SentByDispatch : \E r \in ExistingRows : tasks[r].celery_task_id = c

\* ------------------------------------------- properties: retryable and action
\* C40: for every error code E1001..E4003, is_retryable(code) is true
\* exactly when handle_error(code, 0) returns an action other than fail
C40_RetryableIffNotFail ==
    \A t \in Threads :
        (Decided(t) /\ thr[t].retry_count = 0)
        => (is_retryable(thr[t].error_code) <=> thr[t].recovery.action # "fail")

===================================================================
